---- MODULE Spec2Model ----
(***************************************************************************)
(* PyRoomStudio: mesh surface segmentation, ray picking and the per-surface *)
(* colour/material registry of Render (src/render.py, src/render3.py).      *)
(*                                                                          *)
(* Conventions.                                                             *)
(*  - A vertex is a small integer standing for one float 3-tuple; tuple     *)
(*    equality and tuple ordering of the source are integer equality and    *)
(*    ordering here.                                                        *)
(*  - A triangle is a triple of three distinct vertices; its normal is a    *)
(*    direction in whole degrees within one plane, so the angle between two *)
(*    normals is their angular distance, compared exactly.                  *)
(*  - Python lists are sequences, so triangle and surface indices are       *)
(*    1..N here where the source has 0..N-1.                                *)
(*  - None is the empty tuple.                                              *)
(***************************************************************************)
EXTENDS Integers, Sequences, FiniteSets, TLC

VARIABLES
    pc,                  \* "loaded": mesh read, segmentation not yet built; "ready": Render constructed; "aim"/"picked": picking loop
    triangles,           \* self.model.vectors
    normals,             \* self.model.normals
    angle_threshold,     \* angle_threshold_degrees passed to compute_feature_edges
    feature_edges,       \* self.feature_edges
    surfaces,            \* self.surfaces
    triangle_to_surface, \* self.triangle_to_surface
    surface_colors,      \* self.surface_colors
    surface_materials,   \* self.surface_materials
    mouse_down,          \* self.mouse_down
    last_mouse_pos,      \* self.last_mouse_pos
    mouse_down_pos,      \* self.mouse_down_pos
    event,               \* the event check_keybinds handled last
    ray,                 \* the ray of the last pick, as its per-triangle intersection terms
    hit_tri,             \* hit_tri of the last pick
    size,                \* self.size = self.original_size of Render
    camera_heading,      \* self.camera_heading, in half degrees
    camera_pitch,        \* self.camera_pitch, in half degrees
    camera_distance,     \* self.camera_distance, in tenths
    min_distance,        \* self.min_distance, in tenths
    max_distance,        \* self.max_distance, in tenths
    transparent_mode,    \* self.transparent_mode
    render_running,      \* self.running of Render: None until a QUIT event sets it, then <<FALSE>>
    model_scale_factor,  \* self.model_scale_factor, a fraction [num, den]
    center,              \* self.center of Render, a point with a common denominator
    volume,              \* self.volume of render2's Render, in sixths
    render2_walls,       \* self.walls of render2's Render: the 'triangles' of each wall, as sets
    raised,              \* the exception the last operation raised, or None
    grouping,            \* the frame of group_triangles_into_surfaces while it runs: tri_idx, queue, visited, surface,
                         \* surfaces and how often each triangle was marked; None when it does not run
    walls_from_render,   \* argument of Acoustic.simulate
    model_vertices,      \* argument of Acoustic.simulate
    scale_factor,        \* argument of Acoustic.simulate
    source_exists,       \* os.path.exists(SOUND_SOURCE_FILE)
    pra_walls,           \* the list walls built by Acoustic.simulate
    room,                \* the pra.Room of Acoustic.simulate: None, or the number of its walls
    renderer,            \* self.renderer of MainApplication: None or a reference to the Render
    running,             \* self.running of MainApplication
    filepath,            \* the path of the last load_stl_file call
    load_result,         \* what the last load_stl_file call returned: None before the first, else <<TRUE>> or <<FALSE>>
    left_button          \* the left mouse button as the window system has it: whether it is held, where it was
                         \* pressed and released last, and whether handle_events gave that press to the renderer

meshVars == <<triangles, normals, angle_threshold>>
segVars == <<feature_edges, surfaces, triangle_to_surface>>
registryVars == <<surface_colors, surface_materials>>
mouseVars == <<mouse_down, last_mouse_pos, mouse_down_pos>>
pickVars == <<event, ray, hit_tri>>
cameraVars == <<size, camera_heading, camera_pitch, camera_distance, min_distance,
                max_distance, transparent_mode, render_running, model_scale_factor>>
volVars == <<center, volume, render2_walls>>
acousticVars == <<walls_from_render, model_vertices, scale_factor, source_exists,
                  pra_walls, room>>
appVars == <<renderer, running, filepath, load_result, left_button>>

\* what check_keybinds and the segmentation never touch
restVars == <<volVars, raised, grouping, acousticVars, appVars>>

vars == <<pc, meshVars, segVars, registryVars, mouseVars, pickVars, cameraVars,
          volVars, raised, grouping, acousticVars, appVars>>

None == <<>>

(***************************************************************************)
(* Bounds.                                                                 *)
(***************************************************************************)
NumVerts == 5
MaxTris == 3
MaxFan == 2
\* the heading is followed up to MaxTurn drags to either side
MaxTurn == 1
\* wall lists of up to MaxWalls walls
MaxWalls == 2
\* solids have their corner within MaxCoord of the origin and sides up to MaxDim
MaxCoord == 1
MaxDim == 2

(***************************************************************************)
(* Program constants.                                                      *)
(***************************************************************************)
RenderAngleThreshold == 10
DefaultAngleThreshold == 30
ClickRadius == 5
\* float('inf'), above every intersection distance
Infinity == 1000

AngleThresholds == {RenderAngleThreshold, DefaultAngleThreshold}
\* normal directions (degrees): pairwise angles 0, 10, 30 and 40
NormalDirs == {0, 10, 40}
\* normals of the fan meshes: neighbours are coplanar or creased
FanNormalDirs == {0, 40}

\* colours in tenths: [0.6, 0.8, 1.0]
default_surface_color == <<6, 8, 10>>
\* results of random_color(): each channel uniform in [0.2, 0.9]
RandomColors == {<<2, 2, 2>>, <<9, 5, 2>>}
NoMaterial == "None"
Textured == "True"

\* camera angles in half degrees: 35.0 degrees, and the pitch limit of 89
InitialHeading == 70
InitialPitch == 70
MaxPitch == 178
\* TARGET_SIZE of auto_normalize_scale
TargetSize == 6
\* diagonals of the mesh's bounding box: a room-sized one, and one above 1000
RoomSize == 150
LargeSize == 1400
ModelSizes == {RoomSize, LargeSize}

(***************************************************************************)
(* auto_normalize_scale and set_scale_factor.  Distances are in tenths.    *)
(***************************************************************************)
\* original_size * scale_factor: size / 700 above 1000, else TARGET_SIZE
ScaledSize(s) == IF s > 1000 THEN s \div 700 ELSE TargetSize

\* the factor auto_normalize_scale chooses for a mesh of diagonal s
AutoScaleFactor(s) ==
    IF s > 1000 THEN [num |-> 1, den |-> 700] ELSE [num |-> TargetSize, den |-> s]

\* the camera fields __init__ leaves for a mesh of diagonal s
CameraConstructed(s) ==
    /\ size = s
    /\ model_scale_factor = AutoScaleFactor(s)
    /\ camera_distance = 25 * ScaledSize(s)
    /\ min_distance = 2 * ScaledSize(s)
    /\ max_distance = 50 * ScaledSize(s)
    /\ camera_heading = InitialHeading
    /\ camera_pitch = InitialPitch
    /\ transparent_mode = FALSE
    /\ render_running = None

\* no simulation has run, no application is there
Idle ==
    /\ center = None
    /\ volume = None
    /\ render2_walls = None
    /\ grouping = None
    /\ raised = None
    /\ walls_from_render = None
    /\ model_vertices = None
    /\ scale_factor = None
    /\ source_exists = None
    /\ pra_walls = None
    /\ room = None
    /\ renderer = None
    /\ running = None
    /\ filepath = None
    /\ load_result = None
    /\ left_button = None

(***************************************************************************)
(* Edges and the edge -> triangles map.                                    *)
(***************************************************************************)
\* tuple(sorted([v1, v2]))
SortedEdge(v1, v2) == IF v1 <= v2 THEN <<v1, v2>> ELSE <<v2, v1>>

\* the i-th side of a triangle, i in 1..3: (tri[i], tri[(i+1)%3]) canonicalised
TriEdge(tri, i) == SortedEdge(tri[i], tri[(i % 3) + 1])

EdgesOfTri(tri) == {TriEdge(tri, i) : i \in 1..3}

\* the sides in the order the double loop (tri_idx, i) visits them, each with
\* the index of its triangle
Sides(tris) ==
    [k \in 1..(3 * Len(tris)) |->
        LET tri_idx == ((k - 1) \div 3) + 1
            i == ((k - 1) % 3) + 1
        IN  [tri_idx |-> tri_idx, edge |-> TriEdge(tris[tri_idx], i)]]

\* the list edge_to_triangles[edge]: the triangle indices appended under the
\* key edge, in the order of the loop
EdgeTris(sides, edge) ==
    LET appended == SelectSeq(sides, LAMBDA side : side.edge = edge)
    IN  [k \in 1..Len(appended) |-> appended[k].tri_idx]

EdgeToTriangles(tris) ==
    LET sides == Sides(tris)
    IN  [edge \in {sides[k].edge : k \in 1..Len(sides)} |-> EdgeTris(sides, edge)]

(***************************************************************************)
(* compute_feature_edges                                                   *)
(***************************************************************************)
\* arccos(clip(dot(n1, n2) / (|n1| |n2|), -1, 1)), in degrees
NormalAngle(n1, n2) ==
    LET d == IF n1 >= n2 THEN n1 - n2 ELSE n2 - n1
    IN  IF d > 180 THEN 360 - d ELSE d

\* mutants of IsFeatureEdge
IsFeatureEdge_GE(tris, nrm, threshold) ==
    IF Len(tris) = 1 THEN TRUE
    ELSE IF Len(tris) = 2
         THEN NormalAngle(nrm[tris[1]], nrm[tris[2]]) >= threshold
         ELSE FALSE

IsFeatureEdge_NoBoundary(tris, nrm, threshold) ==
    IF Len(tris) = 2
    THEN NormalAngle(nrm[tris[1]], nrm[tris[2]]) > threshold
    ELSE FALSE

IsFeatureEdge_ManyIsFeature(tris, nrm, threshold) ==
    IF Len(tris) = 1 THEN TRUE
    ELSE IF Len(tris) = 2
         THEN NormalAngle(nrm[tris[1]], nrm[tris[2]]) > threshold
         ELSE TRUE

IsFeatureEdge_FirstTwo(tris, nrm, threshold) ==
    IF Len(tris) = 1 THEN TRUE
    ELSE NormalAngle(nrm[tris[1]], nrm[tris[2]]) > threshold

\* the body of the loop over edge_to_triangles.items()
IsFeatureEdge(tris, nrm, threshold) ==
    IF Len(tris) = 1 THEN TRUE
    ELSE IF Len(tris) = 2
         THEN NormalAngle(nrm[tris[1]], nrm[tris[2]]) > threshold
         ELSE FALSE

ComputeFeatureEdges(tris, nrm, threshold) ==
    LET edge_to_triangles == EdgeToTriangles(tris)
    IN  {edge \in DOMAIN edge_to_triangles :
            IsFeatureEdge(edge_to_triangles[edge], nrm, threshold)}

(***************************************************************************)
(* group_triangles_into_surfaces                                           *)
(***************************************************************************)
\* mutant of SkipVisited
SkipVisited_Never(visited, tri_idx) == FALSE

\* "if visited[tri_idx]: continue" of the outer loop
SkipVisited(visited, tri_idx) == tri_idx \in visited

\* mutant of EdgeNeighbors
EdgeNeighbors_FirstOnly(e2t, fe, edge, visited) ==
    IF edge \in fe THEN <<>>
    ELSE SelectSeq(SubSeq(e2t[edge], 1, 1), LAMBDA neighbor : neighbor \notin visited)

\* what one side of the popped triangle appends to the queue
EdgeNeighbors(e2t, fe, edge, visited) ==
    IF edge \in fe THEN <<>>
    ELSE SelectSeq(e2t[edge], LAMBDA neighbor : neighbor \notin visited)

RECURSIVE FloodFill(_, _, _, _, _, _)
\* the "while queue" loop; the queue is used as a stack (queue.pop())
FloodFill(tris, e2t, fe, queue, visited, surface) ==
    IF queue = <<>> THEN [visited |-> visited, surface |-> surface]
    ELSE LET t == queue[Len(queue)]
             rest == SubSeq(queue, 1, Len(queue) - 1)
         IN  IF t \in visited
             THEN FloodFill(tris, e2t, fe, rest, visited, surface)
             ELSE LET visited2 == visited \cup {t}
                      tri == tris[t]
                  IN  FloodFill(tris, e2t, fe,
                                rest \o EdgeNeighbors(e2t, fe, TriEdge(tri, 1), visited2)
                                     \o EdgeNeighbors(e2t, fe, TriEdge(tri, 2), visited2)
                                     \o EdgeNeighbors(e2t, fe, TriEdge(tri, 3), visited2),
                                visited2, surface \cup {t})

RECURSIVE GroupFrom(_, _, _, _, _, _)
\* the "for tri_idx in range(n_tris)" loop from tri_idx on
GroupFrom(tris, e2t, fe, tri_idx, visited, surfs) ==
    IF tri_idx > Len(tris) THEN surfs
    ELSE IF SkipVisited(visited, tri_idx)
         THEN GroupFrom(tris, e2t, fe, tri_idx + 1, visited, surfs)
         ELSE LET r == FloodFill(tris, e2t, fe, <<tri_idx>>, visited, {})
              IN  GroupFrom(tris, e2t, fe, tri_idx + 1, r.visited,
                            Append(surfs, r.surface))

GroupTrianglesIntoSurfaces(tris, fe) ==
    GroupFrom(tris, EdgeToTriangles(tris), fe, 1, {}, <<>>)

\* the dict built at the end of __init__: a later surface overwrites an earlier one
TriangleToSurface(surfs) ==
    [tri_idx \in UNION {surfs[s] : s \in 1..Len(surfs)} |->
        CHOOSE s \in 1..Len(surfs) :
            /\ tri_idx \in surfs[s]
            /\ \A s2 \in (s + 1)..Len(surfs) : tri_idx \notin surfs[s2]]

(***************************************************************************)
(* Meshes.                                                                 *)
(***************************************************************************)
\* a strip: consecutive facets share an edge, facets two apart share a vertex
SegFacets == {<<a, a + 1, a + 2>> : a \in 1..(NumVerts - 2)}

\* the triangle fan (1,2,3), (1,3,4), ... of n triangles
FanTriangles(n) == [k \in 1..n |-> <<1, k + 1, k + 2>>]

(***************************************************************************)
(* Construction of a Render: the segmentation part of __init__.            *)
(***************************************************************************)
\* mutant of Construct
Construct_ColorPerTriangle ==
    /\ pc = "loaded"
    /\ pc' = "ready"
    /\ feature_edges' = ComputeFeatureEdges(triangles, normals, angle_threshold)
    /\ surfaces' = GroupTrianglesIntoSurfaces(triangles, feature_edges')
    /\ surface_colors' = [s \in 1..Len(triangles) |-> default_surface_color]
    /\ surface_materials' = [s \in 1..Len(surfaces') |-> NoMaterial]
    /\ triangle_to_surface' = TriangleToSurface(surfaces')
    /\ UNCHANGED <<meshVars, mouseVars, pickVars, cameraVars, restVars>>

Construct ==
    /\ pc = "loaded"
    /\ pc' = "ready"
    /\ feature_edges' = ComputeFeatureEdges(triangles, normals, angle_threshold)
    /\ surfaces' = GroupTrianglesIntoSurfaces(triangles, feature_edges')
    /\ surface_colors' = [s \in 1..Len(surfaces') |-> default_surface_color]
    /\ surface_materials' = [s \in 1..Len(surfaces') |-> NoMaterial]
    /\ triangle_to_surface' = TriangleToSurface(surfaces')
    /\ UNCHANGED <<meshVars, mouseVars, pickVars, cameraVars, restVars>>

InitSeg ==
    /\ pc = "loaded"
    /\ \E n \in 1..MaxTris :
          /\ triangles \in [1..n -> SegFacets]
          /\ normals \in [1..n -> NormalDirs]
    /\ angle_threshold \in AngleThresholds
    /\ feature_edges = {}
    /\ surfaces = <<>>
    /\ triangle_to_surface = <<>>
    /\ surface_colors = <<>>
    /\ surface_materials = <<>>
    /\ mouse_down = FALSE
    /\ last_mouse_pos = None
    /\ mouse_down_pos = None
    /\ event = None
    /\ ray = None
    /\ hit_tri = None
    /\ CameraConstructed(RoomSize)
    /\ Idle

NextSeg == Construct

SpecSeg == InitSeg /\ [][NextSeg]_vars

(***************************************************************************)
(* group_triangles_into_surfaces, one step of its loops at a time.  The    *)
(* frame holds the locals: tri_idx of the "for" loop, the queue of the     *)
(* "while" loop, visited as the set of indices whose flag is True, the     *)
(* surface being filled and the list surfaces; marked counts the           *)
(* executions of "visited[t] = True" per triangle.                         *)
(***************************************************************************)
\* mutant of AlreadyVisited
AlreadyVisited_Never(frame, t) == FALSE

\* "if visited[t]: continue" of the inner loop
AlreadyVisited(frame, t) == t \in frame.visited

\* the locals on entry: visited = [False] * n_tris, surfaces = []
EntryFrame(n_tris) ==
    [loop |-> "for", tri_idx |-> 1, queue |-> <<>>, visited |-> {}, surface |-> {},
     surfaces |-> <<>>, marked |-> [t \in 1..n_tris |-> 0]]

\* "if visited[tri_idx]: continue"
ForSkip ==
    /\ grouping.loop = "for"
    /\ grouping.tri_idx <= Len(triangles)
    /\ SkipVisited(grouping.visited, grouping.tri_idx)
    /\ grouping' = [grouping EXCEPT !.tri_idx = @ + 1]
    /\ UNCHANGED <<pc, meshVars, segVars, registryVars, mouseVars, pickVars, cameraVars,
                   volVars, raised, acousticVars, appVars>>

\* "surface = set(); queue = [tri_idx]"
ForStart ==
    /\ grouping.loop = "for"
    /\ grouping.tri_idx <= Len(triangles)
    /\ ~SkipVisited(grouping.visited, grouping.tri_idx)
    /\ grouping' = [grouping EXCEPT !.loop = "while", !.surface = {},
                                    !.queue = <<grouping.tri_idx>>]
    /\ UNCHANGED <<pc, meshVars, segVars, registryVars, mouseVars, pickVars, cameraVars,
                   volVars, raised, acousticVars, appVars>>

\* one pass of "while queue" that pops a triangle already visited
WhileSkip ==
    /\ grouping.loop = "while"
    /\ grouping.queue # <<>>
    /\ AlreadyVisited(grouping, grouping.queue[Len(grouping.queue)])
    /\ grouping' = [grouping EXCEPT !.queue = SubSeq(@, 1, Len(@) - 1)]
    /\ UNCHANGED <<pc, meshVars, segVars, registryVars, mouseVars, pickVars, cameraVars,
                   volVars, raised, acousticVars, appVars>>

\* one pass of "while queue" that marks the popped triangle and appends
\* its unvisited neighbours across the sides that are no feature edges
WhileMark ==
    /\ grouping.loop = "while"
    /\ grouping.queue # <<>>
    /\ LET t == grouping.queue[Len(grouping.queue)]
           rest == SubSeq(grouping.queue, 1, Len(grouping.queue) - 1)
           visited2 == grouping.visited \cup {t}
           tri == triangles[t]
           e2t == EdgeToTriangles(triangles)
       IN  /\ ~AlreadyVisited(grouping, t)
           /\ grouping' = [grouping EXCEPT
                  !.visited = visited2,
                  !.marked[t] = @ + 1,
                  !.surface = @ \cup {t},
                  !.queue = rest \o EdgeNeighbors(e2t, feature_edges, TriEdge(tri, 1), visited2)
                                 \o EdgeNeighbors(e2t, feature_edges, TriEdge(tri, 2), visited2)
                                 \o EdgeNeighbors(e2t, feature_edges, TriEdge(tri, 3), visited2)]
    /\ UNCHANGED <<pc, meshVars, segVars, registryVars, mouseVars, pickVars, cameraVars,
                   volVars, raised, acousticVars, appVars>>

\* the queue is empty: "surfaces.append(surface)", and the next tri_idx
WhileEnd ==
    /\ grouping.loop = "while"
    /\ grouping.queue = <<>>
    /\ grouping' = [grouping EXCEPT !.loop = "for", !.tri_idx = @ + 1,
                                    !.surfaces = Append(@, grouping.surface)]
    /\ UNCHANGED <<pc, meshVars, segVars, registryVars, mouseVars, pickVars, cameraVars,
                   volVars, raised, acousticVars, appVars>>

\* "return surfaces", assigned to self.surfaces by __init__
GroupReturn ==
    /\ grouping.loop = "for"
    /\ grouping.tri_idx > Len(triangles)
    /\ grouping' = [grouping EXCEPT !.loop = "returned"]
    /\ surfaces' = grouping.surfaces
    /\ UNCHANGED <<pc, meshVars, feature_edges, triangle_to_surface, registryVars, mouseVars,
                   pickVars, cameraVars, volVars, raised, acousticVars, appVars>>

\* __init__ has computed the feature edges and enters group_triangles_into_surfaces
InitGroup ==
    /\ pc = "loaded"
    /\ \E n \in 1..MaxTris :
          /\ triangles \in [1..n -> SegFacets]
          /\ normals \in [1..n -> FanNormalDirs]
    /\ angle_threshold = RenderAngleThreshold
    /\ feature_edges = ComputeFeatureEdges(triangles, normals, angle_threshold)
    /\ surfaces = <<>>
    /\ triangle_to_surface = <<>>
    /\ surface_colors = <<>>
    /\ surface_materials = <<>>
    /\ mouse_down = FALSE
    /\ last_mouse_pos = None
    /\ mouse_down_pos = None
    /\ event = None
    /\ ray = None
    /\ hit_tri = None
    /\ CameraConstructed(RoomSize)
    /\ center = None
    /\ volume = None
    /\ render2_walls = None
    /\ raised = None
    /\ grouping = EntryFrame(Len(triangles))
    /\ walls_from_render = None
    /\ model_vertices = None
    /\ scale_factor = None
    /\ source_exists = None
    /\ pra_walls = None
    /\ room = None
    /\ renderer = None
    /\ running = None
    /\ filepath = None
    /\ load_result = None
    /\ left_button = None

NextGroup == ForSkip \/ ForStart \/ WhileSkip \/ WhileMark \/ WhileEnd \/ GroupReturn

SpecGroup == InitGroup /\ [][NextGroup]_vars

\* the loops are sequential code of one thread: a step that can be taken is taken
SpecGroupFair == SpecGroup /\ WF_vars(NextGroup)

(***************************************************************************)
(* Ray picking.  A ray is given by the terms ray_triangle_intersect         *)
(* computes for each triangle: the determinant a, the barycentric           *)
(* coordinates u and v and the distance t.  The terms are integers, so a    *)
(* value within eps = 1e-8 of zero is zero.                                 *)
(***************************************************************************)
Terms(a, u, v, t) == [a |-> a, u |-> u, v |-> v, t |-> t]

\* mutant of RayTriangleIntersect
RayTriangleIntersect_NoEps(x) ==
    IF x.a = 0 THEN None
    ELSE IF x.u < 0 \/ x.u > 1 THEN None
    ELSE IF x.v < 0 \/ x.u + x.v > 1 THEN None
    ELSE <<x.t>>

\* ray_triangle_intersect: None or <<t>>
RayTriangleIntersect(x) ==
    IF x.a = 0 THEN None
    ELSE IF x.u < 0 \/ x.u > 1 THEN None
    ELSE IF x.v < 0 \/ x.u + x.v > 1 THEN None
    ELSE IF x.t > 0 THEN <<x.t>>
    ELSE None

\* mutant of Closer
Closer_OrEqual(t, min_t) == t # None /\ t[1] <= min_t

\* "t is not None and t < min_t"
Closer(t, min_t) == t # None /\ t[1] < min_t

RECURSIVE PickFrom(_, _, _, _)
\* the loop over enumerate(triangles) from tri_idx on
PickFrom(r, tri_idx, min_t, hit) ==
    IF tri_idx > Len(r) THEN hit
    ELSE LET t == RayTriangleIntersect(r[tri_idx])
         IN  IF Closer(t, min_t)
             THEN PickFrom(r, tri_idx + 1, t[1], <<tri_idx>>)
             ELSE PickFrom(r, tri_idx + 1, min_t, hit)

\* the picking loop of check_keybinds: hit_tri, None or <<tri_idx>>
PickTriangle(r) == PickFrom(r, 1, Infinity, None)

\* parallel; u, v outside the triangle; behind and at the origin; hits at t = 1, 2
IntersectSamples ==
    {Terms(0, 0, 0, 1), Terms(1, -1, 0, 1), Terms(1, 2, 0, 1), Terms(1, 0, -1, 1),
     Terms(1, 1, 1, 1), Terms(1, 0, 0, -1), Terms(1, 0, 0, 0), Terms(1, 0, 0, 1),
     Terms(1, 0, 1, 2)}
\* behind the origin; hits at t = 1 and t = 2
ClickSamples == {Terms(1, 0, 0, -1), Terms(1, 0, 0, 1), Terms(1, 0, 1, 2)}

Positions == {<<0, 0>>, <<3, 0>>, <<3, 4>>}

(***************************************************************************)
(* check_keybinds of Render (src/render.py), one action per event.         *)
(***************************************************************************)
MouseEvent(type, button) == [type |-> type, button |-> button]
KeyEvent(key) == [type |-> "KEYDOWN", key |-> key]

\* MOUSEBUTTONDOWN, button 1
PressHandled(pos) ==
    /\ mouse_down' = TRUE
    /\ last_mouse_pos' = pos
    /\ mouse_down_pos' = pos
    /\ event' = MouseEvent("MOUSEBUTTONDOWN", 1)
    /\ ray' = None
    /\ hit_tri' = None
    /\ UNCHANGED <<meshVars, segVars, registryVars, cameraVars>>

\* check_keybinds called on a Render with a left press
LeftPress(pos) ==
    /\ pc = "ready"
    /\ PressHandled(pos)
    /\ UNCHANGED <<pc, restVars>>

\* mutant of ColorChange
ColorChange_KeepsMaterial(colors, materials, hit, color) ==
    IF hit # None
    THEN [colors |-> [colors EXCEPT ![triangle_to_surface[hit[1]]] = color],
          materials |-> materials]
    ELSE [colors |-> colors, materials |-> materials]

\* mutant of ColorChange
ColorChange_MissClearsTextures(colors, materials, hit, color) ==
    IF hit # None
    THEN LET surf_idx == triangle_to_surface[hit[1]]
         IN  [colors |-> [colors EXCEPT ![surf_idx] = color],
              materials |-> [materials EXCEPT ![surf_idx] = NoMaterial]]
    ELSE [colors |-> colors, materials |-> [s \in DOMAIN materials |-> NoMaterial]]

\* mutant of ColorChange
ColorChange_EverySurface(colors, materials, hit, color) ==
    IF hit # None
    THEN [colors |-> [s \in DOMAIN colors |-> color],
          materials |-> [s \in DOMAIN materials |-> NoMaterial]]
    ELSE [colors |-> colors, materials |-> materials]

\* "if hit_tri is not None" of the right click: the new registry
ColorChange(colors, materials, hit, color) ==
    IF hit # None
    THEN LET surf_idx == triangle_to_surface[hit[1]]
         IN  [colors |-> [colors EXCEPT ![surf_idx] = color],
              materials |-> [materials EXCEPT ![surf_idx] = NoMaterial]]
    ELSE [colors |-> colors, materials |-> materials]

\* MOUSEBUTTONDOWN, button 3: pick, then change the colour of the hit surface
RightPress(r, color) ==
    /\ pc = "ready"
    /\ event' = MouseEvent("MOUSEBUTTONDOWN", 3)
    /\ ray' = r
    /\ hit_tri' = PickTriangle(r)
    /\ LET reg == ColorChange(surface_colors, surface_materials, hit_tri', color)
       IN  /\ surface_colors' = reg.colors
           /\ surface_materials' = reg.materials
    /\ UNCHANGED <<pc, meshVars, segVars, mouseVars, cameraVars, restVars>>

\* drag_distance < 5, with drag_distance = (dx*dx + dy*dy) ** 0.5
IsClick(down_pos, pos) ==
    LET dx == pos[1] - down_pos[1]
        dy == pos[2] - down_pos[2]
    IN  dx * dx + dy * dy < ClickRadius * ClickRadius

\* mutant of TextureApply
TextureApply_ClearsColor(colors, materials, hit) ==
    IF hit # None
    THEN LET surf_idx == triangle_to_surface[hit[1]]
         IN  [colors |-> [colors EXCEPT ![surf_idx] = default_surface_color],
              materials |-> [materials EXCEPT ![surf_idx] = Textured]]
    ELSE [colors |-> colors, materials |-> materials]

\* "if hit_tri is not None" of the left click: the new registry
TextureApply(colors, materials, hit) ==
    IF hit # None
    THEN LET surf_idx == triangle_to_surface[hit[1]]
         IN  [colors |-> colors,
              materials |-> [materials EXCEPT ![surf_idx] = Textured]]
    ELSE [colors |-> colors, materials |-> materials]

\* MOUSEBUTTONUP, button 1: a click applies the texture to the hit surface
ReleaseHandled(pos, r) ==
    /\ event' = MouseEvent("MOUSEBUTTONUP", 1)
    /\ mouse_down' = FALSE
    /\ IF mouse_down_pos # None /\ IsClick(mouse_down_pos, pos)
       THEN /\ ray' = r
            /\ hit_tri' = PickTriangle(r)
            /\ LET reg == TextureApply(surface_colors, surface_materials, hit_tri')
               IN  /\ surface_colors' = reg.colors
                   /\ surface_materials' = reg.materials
       ELSE /\ ray' = None
            /\ hit_tri' = None
            /\ UNCHANGED registryVars
    /\ mouse_down_pos' = None
    /\ UNCHANGED <<meshVars, segVars, last_mouse_pos, cameraVars>>

\* check_keybinds called on a Render with a left release
LeftRelease(pos, r) ==
    /\ pc = "ready"
    /\ ReleaseHandled(pos, r)
    /\ UNCHANGED <<pc, restVars>>

\* mutant of KeyR
KeyR_ResetPerTriangle ==
    /\ pc = "ready"
    /\ event' = KeyEvent("r")
    /\ surface_colors' = [s \in 1..Len(triangles) |-> default_surface_color]
    /\ surface_materials' = [s \in 1..Len(triangles) |-> NoMaterial]
    /\ ray' = None
    /\ hit_tri' = None
    /\ UNCHANGED <<pc, meshVars, segVars, mouseVars, cameraVars, restVars>>

\* mutant of KeyR
KeyR_KeepsMaterials ==
    /\ pc = "ready"
    /\ event' = KeyEvent("r")
    /\ surface_colors' = [s \in 1..Len(surfaces) |-> default_surface_color]
    /\ ray' = None
    /\ hit_tri' = None
    /\ UNCHANGED <<pc, meshVars, segVars, mouseVars, surface_materials, cameraVars, restVars>>

\* KEYDOWN, key R: reset all surfaces to default
KeyR ==
    /\ pc = "ready"
    /\ event' = KeyEvent("r")
    /\ surface_colors' = [s \in 1..Len(surfaces) |-> default_surface_color]
    /\ surface_materials' = [s \in 1..Len(surfaces) |-> NoMaterial]
    /\ ray' = None
    /\ hit_tri' = None
    /\ UNCHANGED <<pc, meshVars, segVars, mouseVars, cameraVars, restVars>>

\* the state Render.__init__ leaves for a mesh
Constructed(tris, nrm, threshold) ==
    /\ triangles = tris
    /\ normals = nrm
    /\ angle_threshold = threshold
    /\ feature_edges = ComputeFeatureEdges(tris, nrm, threshold)
    /\ surfaces = GroupTrianglesIntoSurfaces(tris, feature_edges)
    /\ surface_colors = [s \in 1..Len(surfaces) |-> default_surface_color]
    /\ surface_materials = [s \in 1..Len(surfaces) |-> NoMaterial]
    /\ triangle_to_surface = TriangleToSurface(surfaces)
    /\ mouse_down = FALSE
    /\ last_mouse_pos = None
    /\ mouse_down_pos = None

Init ==
    /\ pc = "ready"
    /\ \E n \in 1..MaxFan : \E nrm \in [1..n -> FanNormalDirs] :
          Constructed(FanTriangles(n), nrm, RenderAngleThreshold)
    /\ event = None
    /\ ray = None
    /\ hit_tri = None
    /\ CameraConstructed(RoomSize)
    /\ Idle

Rays == [1..Len(triangles) -> ClickSamples]
\* a left release computes a ray only when it completes a click
ReleaseRays(pos) ==
    IF mouse_down_pos # None /\ IsClick(mouse_down_pos, pos) THEN Rays ELSE {None}

Next ==
    \/ \E pos \in Positions : LeftPress(pos)
    \/ \E r \in Rays : \E color \in RandomColors : RightPress(r, color)
    \/ \E pos \in Positions : \E r \in ReleaseRays(pos) : LeftRelease(pos, r)
    \/ KeyR

Spec == Init /\ [][Next]_vars

(***************************************************************************)
(* The other events of check_keybinds, which move the camera, and every    *)
(* event on one mesh.                                                      *)
(***************************************************************************)
\* a drag of DragX pixels to the right and DragY pixels down
DragX == 3
DragY == 400
EventPositions == {<<0, 0>>, <<DragX, DragY>>}

Min(a, b) == IF a <= b THEN a ELSE b
Max(a, b) == IF a >= b THEN a ELSE b

\* MOUSEMOTION: a drag turns the camera; 0.5 degrees a pixel is one half degree
MotionHandled(pos) ==
    /\ event' = [type |-> "MOUSEMOTION"]
    /\ ray' = None
    /\ hit_tri' = None
    /\ IF mouse_down /\ last_mouse_pos # None
       THEN LET dx == pos[1] - last_mouse_pos[1]
                dy == pos[2] - last_mouse_pos[2]
            IN  /\ camera_heading' = camera_heading - dx
                /\ camera_heading' >= InitialHeading - MaxTurn * DragX
                /\ camera_heading' <= InitialHeading + MaxTurn * DragX
                /\ camera_pitch' = Max(-MaxPitch, Min(MaxPitch, camera_pitch + dy))
                /\ last_mouse_pos' = pos
       ELSE UNCHANGED <<camera_heading, camera_pitch, last_mouse_pos>>
    /\ UNCHANGED <<meshVars, segVars, registryVars, mouse_down, mouse_down_pos,
                   size, camera_distance, min_distance, max_distance,
                   transparent_mode, render_running, model_scale_factor>>

\* check_keybinds called on a Render with a mouse motion
MouseMotion(pos) ==
    /\ pc = "ready"
    /\ MotionHandled(pos)
    /\ UNCHANGED <<pc, restVars>>

\* MOUSEWHEEL: zoom by 0.1 * self.size, which is size tenths
MouseWheel(y) ==
    /\ pc = "ready"
    /\ event' = [type |-> "MOUSEWHEEL", y |-> y]
    /\ ray' = None
    /\ hit_tri' = None
    /\ camera_distance' = IF y > 0
                          THEN Max(min_distance, camera_distance - size)
                          ELSE Min(max_distance, camera_distance + size)
    /\ UNCHANGED <<pc, meshVars, segVars, registryVars, mouseVars,
                   size, camera_heading, camera_pitch, min_distance, max_distance,
                   transparent_mode, render_running, model_scale_factor, restVars>>

\* KEYDOWN, key T: toggle the transparency mode
KeyT ==
    /\ pc = "ready"
    /\ event' = KeyEvent("t")
    /\ ray' = None
    /\ hit_tri' = None
    /\ transparent_mode' = ~transparent_mode
    /\ UNCHANGED <<pc, meshVars, segVars, registryVars, mouseVars,
                   size, camera_heading, camera_pitch, camera_distance, min_distance,
                   max_distance, render_running, model_scale_factor, restVars>>

\* QUIT
Quit ==
    /\ pc = "ready"
    /\ event' = [type |-> "QUIT"]
    /\ ray' = None
    /\ hit_tri' = None
    /\ render_running' = <<FALSE>>
    /\ UNCHANGED <<pc, meshVars, segVars, registryVars, mouseVars,
                   size, camera_heading, camera_pitch, camera_distance, min_distance,
                   max_distance, transparent_mode, model_scale_factor, restVars>>

\* a fan of two triangles, coplanar or creased, of either size
InitEvents ==
    /\ pc = "ready"
    /\ \E dir \in FanNormalDirs : Constructed(FanTriangles(2), <<0, dir>>, RenderAngleThreshold)
    /\ event = None
    /\ ray = None
    /\ hit_tri = None
    /\ \E s \in ModelSizes : CameraConstructed(s)
    /\ Idle

\* a ray that misses every triangle, and one that hits the last triangle only
EventRays ==
    {[k \in 1..Len(triangles) |-> Terms(1, 0, 0, -1)],
     [k \in 1..Len(triangles) |->
         IF k = Len(triangles) THEN Terms(1, 0, 0, 1) ELSE Terms(1, 0, 0, -1)]}
EventReleaseRays(pos) ==
    IF mouse_down_pos # None /\ IsClick(mouse_down_pos, pos) THEN EventRays ELSE {None}
EventColors == {<<9, 5, 2>>}

NextEvents ==
    \/ Quit
    \/ \E pos \in EventPositions : LeftPress(pos)
    \/ \E r \in EventRays : \E color \in EventColors : RightPress(r, color)
    \/ \E pos \in EventPositions : \E r \in EventReleaseRays(pos) : LeftRelease(pos, r)
    \/ \E pos \in EventPositions : MouseMotion(pos)
    \/ \E y \in {-1, 1} : MouseWheel(y)
    \/ KeyT
    \/ KeyR

SpecEvents == InitEvents /\ [][NextEvents]_vars

(***************************************************************************)
(* set_scale_factor, and the camera under it.                              *)
(***************************************************************************)
\* original_size * factor, exact for the factors below
ScaledBy(s, factor) == (s * factor.num) \div factor.den

\* mutant of SetScaleFactor
SetScaleFactor_KeepsDistance(factor) ==
    /\ pc = "ready"
    /\ model_scale_factor' = factor
    /\ min_distance' = 2 * ScaledBy(size, factor)
    /\ max_distance' = 50 * ScaledBy(size, factor)
    /\ UNCHANGED <<pc, meshVars, segVars, registryVars, mouseVars, pickVars,
                   size, camera_heading, camera_pitch, camera_distance, transparent_mode,
                   render_running, restVars>>

\* set_scale_factor(factor): 2.5, 0.2 and 5 times the scaled size, in tenths
SetScaleFactor(factor) ==
    /\ pc = "ready"
    /\ model_scale_factor' = factor
    /\ camera_distance' = 25 * ScaledBy(size, factor)
    /\ min_distance' = 2 * ScaledBy(size, factor)
    /\ max_distance' = 50 * ScaledBy(size, factor)
    /\ UNCHANGED <<pc, meshVars, segVars, registryVars, mouseVars, pickVars,
                   size, camera_heading, camera_pitch, transparent_mode,
                   render_running, restVars>>

\* the factors set: a fiftieth, the original size, and a negative one
ScaleMultipliers == {[num |-> 1, den |-> 50], [num |-> 1, den |-> 1], [num |-> -1, den |-> 1]}

NextCamera ==
    \/ \E pos \in EventPositions : LeftPress(pos)
    \/ \E pos \in EventPositions : \E r \in EventReleaseRays(pos) : LeftRelease(pos, r)
    \/ \E pos \in EventPositions : MouseMotion(pos)
    \/ \E y \in {-1, 1} : MouseWheel(y)
    \/ \E factor \in ScaleMultipliers : SetScaleFactor(factor)

SpecCamera == InitEvents /\ [][NextCamera]_vars

(***************************************************************************)
(* Meshes given with coordinates: a point is a triple of integers, a mesh  *)
(* a list of triangles of points, as stl_mesh.vectors.                     *)
(***************************************************************************)
Add3(a, b) == <<a[1] + b[1], a[2] + b[2], a[3] + b[3]>>
Scale3(a, k) == <<a[1] * k, a[2] * k, a[3] * k>>
\* np.dot and np.cross
Dot(a, b) == a[1] * b[1] + a[2] * b[2] + a[3] * b[3]
Cross(a, b) == <<a[2] * b[3] - a[3] * b[2], a[3] * b[1] - a[1] * b[3], a[1] * b[2] - a[2] * b[1]>>

\* corner (i, j, k) of the axis-aligned box with corner o and sides d
Corner(o, d, i, j, k) == <<o[1] + i * d[1], o[2] + j * d[2], o[3] + k * d[3]>>
\* the 12 triangles of the box, two a face, counter-clockwise seen from outside:
\* bottom, top, front, back, left, right
BoxTriangles(o, d) ==
    LET P(i, j, k) == Corner(o, d, i, j, k)
    IN  << <<P(0,0,0), P(0,1,0), P(1,1,0)>>, <<P(0,0,0), P(1,1,0), P(1,0,0)>>,
           <<P(0,0,1), P(1,0,1), P(1,1,1)>>, <<P(0,0,1), P(1,1,1), P(0,1,1)>>,
           <<P(0,0,0), P(1,0,0), P(1,0,1)>>, <<P(0,0,0), P(1,0,1), P(0,0,1)>>,
           <<P(0,1,0), P(0,1,1), P(1,1,1)>>, <<P(0,1,0), P(1,1,1), P(1,1,0)>>,
           <<P(0,0,0), P(0,0,1), P(0,1,1)>>, <<P(0,0,0), P(0,1,1), P(0,1,0)>>,
           <<P(1,0,0), P(1,1,0), P(1,1,1)>>, <<P(1,0,0), P(1,1,1), P(1,0,1)>> >>
\* the 4 triangles of the tetrahedron with a right corner at o and legs d
TetraTriangles(o, d) ==
    LET P(i, j, k) == Corner(o, d, i, j, k)
    IN  << <<P(0,0,0), P(0,1,0), P(1,0,0)>>, <<P(0,0,0), P(1,0,0), P(0,0,1)>>,
           <<P(0,0,0), P(0,0,1), P(0,1,0)>>, <<P(1,0,0), P(0,1,0), P(0,0,1)>> >>

\* a list without the entries at the indices in gone
Without(seq, gone) ==
    LET Keep[k \in 0..Len(seq)] ==
            IF k = 0 THEN <<>>
            ELSE IF k \in gone THEN Keep[k - 1] ELSE Append(Keep[k - 1], seq[k])
    IN  Keep[Len(seq)]

\* the solids an STL file may hold: whole, or with one face missing
\* (face 0: none missing)
SolidMesh(kind, o, d, missing) ==
    IF kind = "box"
    THEN Without(BoxTriangles(o, d), IF missing = 0 THEN {} ELSE {2 * missing - 1, 2 * missing})
    ELSE Without(TetraTriangles(o, d), IF missing = 0 THEN {} ELSE {missing})

Coords == (-MaxCoord)..MaxCoord
Dims == 1..MaxDim
SolidMeshes ==
    {SolidMesh("box", <<x, y, z>>, <<a, b, c>>, missing) :
        x \in Coords, y \in Coords, z \in Coords,
        a \in Dims, b \in Dims, c \in Dims, missing \in 0..6}
    \cup
    {SolidMesh("tetra", <<x, y, z>>, <<a, b, c>>, missing) :
        x \in Coords, y \in Coords, z \in Coords,
        a \in Dims, b \in Dims, c \in Dims, missing \in 0..4}

(***************************************************************************)
(* compute_volumetric_properties of render2's Render.  A volume is kept in *)
(* sixths (6 * tetra_volume is the triple product) and a point as a        *)
(* numerator triple over a denominator, so the arithmetic is exact.        *)
(***************************************************************************)
\* 6 * tetra_volume
TetraVolume6(tri) == Dot(tri[1], Cross(tri[2], tri[3]))
\* 4 * tetra_centroid
TetraCentroid4(tri) == Add3(Add3(tri[1], tri[2]), tri[3])

\* mutant of WeightedCentroid
WeightedCentroid_Unweighted(tri) == TetraCentroid4(tri)

\* 24 * tetra_centroid * tetra_volume
WeightedCentroid(tri) == Scale3(TetraCentroid4(tri), TetraVolume6(tri))

RECURSIVE VolumeLoop(_, _, _, _)
\* the loop over stl_mesh.vectors from triangle k on
VolumeLoop(mesh, k, total_volume, centroid_sum) ==
    IF k > Len(mesh)
    THEN [total_volume |-> total_volume, centroid_sum |-> centroid_sum]
    ELSE VolumeLoop(mesh, k + 1, total_volume + TetraVolume6(mesh[k]),
                    Add3(centroid_sum, WeightedCentroid(mesh[k])))

\* 6 * total_volume and 24 * centroid_sum after the loop
VolumeSums(mesh) == VolumeLoop(mesh, 1, 0, <<0, 0, 0>>)

\* np.isclose(total_volume, 0): on whole sixths, total_volume = 0
VolumeIsZero(total_volume6) == total_volume6 = 0

\* centroid_sum / total_volume = (24 * centroid_sum) / (4 * 6 * total_volume)
ComputeVolumetricProperties(mesh) ==
    LET sums == VolumeSums(mesh)
    IN  IF VolumeIsZero(sums.total_volume)
        THEN [raised |-> <<"ValueError">>, center |-> None, volume |-> None]
        ELSE [raised |-> None,
              center |-> [num |-> sums.centroid_sum, den |-> 4 * sums.total_volume],
              volume |-> <<sums.total_volume>>]

(***************************************************************************)
(* compute_center_and_size and get_room_center of render's Render.         *)
(***************************************************************************)
\* self.model.vectors.reshape(-1, 3)
MeshPoints(mesh) == {mesh[t][i] : t \in 1..Len(mesh), i \in 1..3}
AxisMin(points, axis) == CHOOSE m \in {p[axis] : p \in points} : \A p \in points : m <= p[axis]
AxisMax(points, axis) == CHOOSE m \in {p[axis] : p \in points} : \A p \in points : m >= p[axis]
\* the square root, rounded down to a whole unit
ISqrt(n) == CHOOSE r \in 0..n : r * r <= n /\ (r + 1) * (r + 1) > n

\* center = (min_ + max_) / 2, size = |max_ - min_|
ComputeCenterAndSize(mesh) ==
    LET points == MeshPoints(mesh)
        min_ == <<AxisMin(points, 1), AxisMin(points, 2), AxisMin(points, 3)>>
        max_ == <<AxisMax(points, 1), AxisMax(points, 2), AxisMax(points, 3)>>
        diag == Add3(max_, Scale3(min_, -1))
    IN  [center |-> [num |-> Add3(min_, max_), den |-> 2],
         size |-> ISqrt(Dot(diag, diag))]

\* get_room_center: self.center.copy()
GetRoomCenter == center

\* nothing of a Render is built yet
Unbuilt ==
    /\ normals = None
    /\ angle_threshold = None
    /\ feature_edges = {}
    /\ surfaces = <<>>
    /\ triangle_to_surface = <<>>
    /\ surface_colors = <<>>
    /\ surface_materials = <<>>
    /\ mouse_down = FALSE
    /\ last_mouse_pos = None
    /\ mouse_down_pos = None
    /\ event = None
    /\ ray = None
    /\ hit_tri = None
    /\ size = None
    /\ camera_heading = None
    /\ camera_pitch = None
    /\ camera_distance = None
    /\ min_distance = None
    /\ max_distance = None
    /\ transparent_mode = None
    /\ render_running = None
    /\ model_scale_factor = None

\* an STL file holding a solid has been chosen
InitVol ==
    /\ pc = "file"
    /\ triangles \in SolidMeshes
    /\ Unbuilt
    /\ Idle

(***************************************************************************)
(* find_walls of render2.  The normals are those numpy-stl computes on     *)
(* loading, cross(v1 - v0, v2 - v0).  Coordinates are in tenths, so the    *)
(* distance |dot(ov - start_vertex, start_normal)| is in thousandths.      *)
(***************************************************************************)
\* TOLERANCE = 1e-2, in thousandths
Tolerance == 10
Sub3(a, b) == <<a[1] - b[1], a[2] - b[2], a[3] - b[3]>>
Abs(x) == IF x < 0 THEN -x ELSE x
\* self.model['normals'][t]
FaceNormal(tri) == Cross(Sub3(tri[2], tri[1]), Sub3(tri[3], tri[1]))
\* {tuple(v) for v in vertices[idx*3 : idx*3+3]}
VertexSet(tri) == {tri[1], tri[2], tri[3]}

\* every vertex of other within TOLERANCE of the plane of the start triangle
IsCoplanar(mesh, start, other) ==
    \A i \in 1..3 :
        Abs(Dot(Sub3(mesh[other][i], mesh[start][1]), FaceNormal(mesh[start]))) <= Tolerance

RECURSIVE ConnectedLoop(_, _, _, _)
\* the while loop of find_connected_coplanar_triangles
ConnectedLoop(mesh, start, to_check, connected) ==
    IF to_check = {} THEN connected
    ELSE LET current_idx == CHOOSE x \in to_check : TRUE
             rest == to_check \ {current_idx}
         IN  IF current_idx \in connected
             THEN ConnectedLoop(mesh, start, rest, connected)
             ELSE LET grown == connected \cup {current_idx}
                      found == {other_idx \in 1..Len(mesh) :
                                  /\ other_idx \notin grown
                                  /\ other_idx \notin rest
                                  /\ Cardinality(VertexSet(mesh[current_idx])
                                                 \cap VertexSet(mesh[other_idx])) >= 2
                                  /\ IsCoplanar(mesh, start, other_idx)}
                  IN  ConnectedLoop(mesh, start, rest \cup found, grown)

\* find_connected_coplanar_triangles(start_triangle_idx)
FindConnectedCoplanarTriangles(mesh, start) == ConnectedLoop(mesh, start, {start}, {})

RECURSIVE FindWallsFrom(_, _, _, _)
\* the loop of find_walls from triangle i on
FindWallsFrom(mesh, i, processed_triangles, found_walls) ==
    IF i > Len(mesh) THEN found_walls
    ELSE IF i \in processed_triangles
    THEN FindWallsFrom(mesh, i + 1, processed_triangles, found_walls)
    ELSE LET wall_triangles == FindConnectedCoplanarTriangles(mesh, i)
         IN  FindWallsFrom(mesh, i + 1, processed_triangles \cup wall_triangles,
                           Append(found_walls, wall_triangles))

\* find_walls
FindWalls(mesh) == FindWallsFrom(mesh, 1, {}, <<>>)

\* render2's Render.__init__, lines 69 and 74
Render2Init ==
    /\ pc = "file"
    /\ pc' = "render2"
    /\ LET r == ComputeVolumetricProperties(triangles)
       IN  /\ UNCHANGED grouping
           /\ raised' = r.raised
           /\ center' = r.center
           /\ volume' = r.volume
           /\ render2_walls' = IF r.raised = None THEN FindWalls(triangles) ELSE None
    /\ UNCHANGED <<meshVars, segVars, registryVars, mouseVars, pickVars, cameraVars,
                   acousticVars, appVars>>

\* render's Render.__init__, line 28, whose center get_room_center returns
RenderInit ==
    /\ pc = "file"
    /\ pc' = "render"
    /\ LET r == ComputeCenterAndSize(triangles)
       IN  /\ center' = r.center
           /\ size' = r.size
    /\ UNCHANGED <<meshVars, segVars, registryVars, mouseVars, pickVars,
                   camera_heading, camera_pitch, camera_distance, min_distance,
                   max_distance, transparent_mode, render_running, model_scale_factor,
                   volume, render2_walls, raised, grouping, acousticVars, appVars>>

NextVol == Render2Init \/ RenderInit

\* a strip of triangles over a zigzag of vertices one tenth apart, each
\* vertex at one of three heights
Heights == {0, 1, 3}
StripPoint(k, z) == <<k, k % 2, z>>
StripMesh(n, z) == [k \in 1..n |-> <<StripPoint(k, z[k]), StripPoint(k + 1, z[k + 1]),
                                     StripPoint(k + 2, z[k + 2])>>]
StripMeshes == UNION {{StripMesh(n, z) : z \in [1..(n + 2) -> Heights]} : n \in 1..MaxTris}

\* an STL file holding a strip has been chosen
InitFindWalls ==
    /\ pc = "file"
    /\ triangles \in StripMeshes
    /\ Unbuilt
    /\ Idle

NextFindWalls == Render2Init

SpecFindWalls == InitFindWalls /\ [][NextFindWalls]_vars

SpecVol == InitVol /\ [][NextVol]_vars

(***************************************************************************)
(* main.App.run over render2's Render.  An action is one pass of the       *)
(* "while self.running" loop with one event in pygame.event.get().         *)
(* Distances are in tenths, angles in half degrees.                        *)
(***************************************************************************)
CAMERA_DIST == 50
MIN_DIST == 10
MAX_DIST == 50
CAMERA_HEADING == 70
CAMERA_PITCH == 70
MIN_PITCH == 0
MAX_PITCH == 170
\* the zoom step 0.5 of the MOUSEWHEEL branch
WheelStep == 5

\* the methods class Render of render2 defines
Render2Methods ==
    {"__init__", "compute_volumetric_properties", "load_model", "setup_lighting",
     "update_camera", "get_ray_from_mouse", "check_triangle_intersection", "find_walls",
     "find_connected_coplanar_triangles", "generate_wall_colors", "_calculate_2d_layout",
     "draw_model", "draw_model_3d", "draw_model_2d", "draw_axes", "draw_stats",
     "flip_model_x", "toggle_view_mode"}

\* attribute lookup self.render.<name>: AttributeError when the class has no such method
LookupRaises(name) == IF name \in Render2Methods THEN None ELSE <<"AttributeError">>

\* "while self.running" after a pass: the loop is left when running is False
\* or an exception unwinds run
AfterPass(run, exception) == IF run /\ exception = None THEN "main" ELSE "exited"

\* the camera rotation at the end of a pass, the mouse being at current_pos
CameraFollowsMouse(down, last, current_pos) ==
    IF down /\ last # None
    THEN /\ camera_heading' = camera_heading - (current_pos[1] - last[1])
         /\ camera_pitch' = Min(Max(camera_pitch + (current_pos[2] - last[2]), MIN_PITCH),
                                MAX_PITCH)
         /\ last_mouse_pos' = current_pos
    ELSE /\ last_mouse_pos' = last
         /\ UNCHANGED <<camera_heading, camera_pitch>>

\* QUIT
MainQuit(current_pos) ==
    /\ pc = "main"
    /\ event' = [type |-> "QUIT"]
    /\ running' = FALSE
    /\ raised' = None
    /\ CameraFollowsMouse(mouse_down, last_mouse_pos, current_pos)
    /\ pc' = AfterPass(running', raised')
    /\ UNCHANGED <<meshVars, segVars, registryVars, mouse_down, mouse_down_pos, ray, hit_tri,
                   size, camera_distance, min_distance, max_distance, transparent_mode,
                   render_running, model_scale_factor, volVars, grouping, acousticVars,
                   renderer, filepath, load_result, left_button>>

\* MOUSEBUTTONDOWN, button 1: the two assignments, then self.render.handle_click(...)
MainLeftPress(pos, current_pos) ==
    /\ pc = "main"
    /\ event' = [type |-> "MOUSEBUTTONDOWN", button |-> 1, pos |-> pos]
    /\ mouse_down' = TRUE
    /\ raised' = LookupRaises("handle_click")
    /\ IF raised' = None
       THEN CameraFollowsMouse(TRUE, pos, current_pos)
       ELSE /\ last_mouse_pos' = pos
            /\ UNCHANGED <<camera_heading, camera_pitch>>
    /\ pc' = AfterPass(running, raised')
    /\ UNCHANGED <<meshVars, segVars, registryVars, mouse_down_pos, ray, hit_tri,
                   size, camera_distance, min_distance, max_distance, transparent_mode,
                   render_running, model_scale_factor, volVars, grouping, acousticVars,
                   appVars>>

\* MOUSEBUTTONUP, button 1
MainLeftRelease(current_pos) ==
    /\ pc = "main"
    /\ event' = [type |-> "MOUSEBUTTONUP", button |-> 1]
    /\ mouse_down' = FALSE
    /\ raised' = None
    /\ CameraFollowsMouse(FALSE, last_mouse_pos, current_pos)
    /\ pc' = AfterPass(running, raised')
    /\ UNCHANGED <<meshVars, segVars, registryVars, mouse_down_pos, ray, hit_tri,
                   size, camera_distance, min_distance, max_distance, transparent_mode,
                   render_running, model_scale_factor, volVars, grouping, acousticVars,
                   appVars>>

\* MOUSEWHEEL
MainWheel(y, current_pos) ==
    /\ pc = "main"
    /\ event' = [type |-> "MOUSEWHEEL", y |-> y]
    /\ camera_distance' = IF y > 0
                          THEN Max(min_distance, camera_distance - WheelStep)
                          ELSE Min(max_distance, camera_distance + WheelStep)
    /\ raised' = None
    /\ CameraFollowsMouse(mouse_down, last_mouse_pos, current_pos)
    /\ pc' = AfterPass(running, raised')
    /\ UNCHANGED <<meshVars, segVars, registryVars, mouse_down, mouse_down_pos, ray, hit_tri,
                   size, min_distance, max_distance, transparent_mode,
                   render_running, model_scale_factor, volVars, grouping, acousticVars,
                   appVars>>

\* KEYDOWN, key ESCAPE
MainEscape(current_pos) ==
    /\ pc = "main"
    /\ event' = KeyEvent("ESCAPE")
    /\ running' = FALSE
    /\ raised' = None
    /\ CameraFollowsMouse(mouse_down, last_mouse_pos, current_pos)
    /\ pc' = AfterPass(running', raised')
    /\ UNCHANGED <<meshVars, segVars, registryVars, mouse_down, mouse_down_pos, ray, hit_tri,
                   size, camera_distance, min_distance, max_distance, transparent_mode,
                   render_running, model_scale_factor, volVars, grouping, acousticVars,
                   renderer, filepath, load_result, left_button>>

\* a pass without an event in the queue
MainNoEvent(current_pos) ==
    /\ pc = "main"
    /\ event' = None
    /\ raised' = None
    /\ CameraFollowsMouse(mouse_down, last_mouse_pos, current_pos)
    /\ pc' = AfterPass(running, raised')
    /\ UNCHANGED <<meshVars, segVars, registryVars, mouse_down, mouse_down_pos, ray, hit_tri,
                   size, camera_distance, min_distance, max_distance, transparent_mode,
                   render_running, model_scale_factor, volVars, grouping, acousticVars,
                   appVars>>

\* App.__init__ has constructed the Render for a strip of nonzero volume
InitMain ==
    /\ pc = "main"
    /\ triangles \in StripMeshes
    /\ normals = None
    /\ angle_threshold = None
    /\ feature_edges = {}
    /\ surfaces = <<>>
    /\ triangle_to_surface = <<>>
    /\ surface_colors = <<>>
    /\ surface_materials = <<>>
    /\ mouse_down = FALSE
    /\ last_mouse_pos = None
    /\ mouse_down_pos = None
    /\ event = None
    /\ ray = None
    /\ hit_tri = None
    /\ size = None
    /\ camera_heading = CAMERA_HEADING
    /\ camera_pitch = CAMERA_PITCH
    /\ camera_distance = CAMERA_DIST
    /\ min_distance = MIN_DIST
    /\ max_distance = MAX_DIST
    /\ transparent_mode = None
    /\ render_running = None
    /\ model_scale_factor = None
    /\ \E r \in {ComputeVolumetricProperties(triangles)} :
          /\ r.raised = None
          /\ center = r.center
          /\ volume = r.volume
    /\ render2_walls = FindWalls(triangles)
    /\ raised = None
    /\ grouping = None
    /\ walls_from_render = None
    /\ model_vertices = None
    /\ scale_factor = None
    /\ source_exists = None
    /\ pra_walls = None
    /\ room = None
    /\ renderer = None
    /\ running = TRUE
    /\ filepath = None
    /\ load_result = None
    /\ left_button = None

NextMain ==
    \E current_pos \in EventPositions :
        \/ MainQuit(current_pos)
        \/ \E pos \in EventPositions : MainLeftPress(pos, current_pos)
        \/ MainLeftRelease(current_pos)
        \/ \E y \in {-1, 1} : MainWheel(y, current_pos)
        \/ MainEscape(current_pos)
        \/ MainNoEvent(current_pos)

SpecMain == InitMain /\ [][NextMain]_vars

(***************************************************************************)
(* Acoustic.simulate.  A scale factor is a fraction and a scaled vertex a  *)
(* numerator over its denominator; triangle indices are 1..N, so triangle  *)
(* tri_idx has the rows 3 * (tri_idx - 1) + 1 .. 3 * tri_idx.              *)
(***************************************************************************)
\* 1.0 / SIZE_REDUCTION_FACTOR
DefaultScaleFactor == [num |-> 1, den |-> 700]
\* vertex * scale_factor
ScaledVertex(v, scale) == [num |-> v * scale.num, den |-> scale.den]

\* mutant of TriangleVerts
TriangleVerts_Stride1(vertices, tri_idx) ==
    SubSeq(vertices, tri_idx, Min(tri_idx + 2, Len(vertices)))

\* model_vertices[tri_idx*3 : tri_idx*3+3]: a slice stops at the end of the array
TriangleVerts(vertices, tri_idx) ==
    SubSeq(vertices, 3 * (tri_idx - 1) + 1, Min(3 * tri_idx, Len(vertices)))

RECURSIVE TriangleIndices(_, _)
\* the triangle indices in the order the two nested loops visit them
TriangleIndices(walls, k) ==
    IF k > Len(walls) THEN <<>> ELSE walls[k] \o TriangleIndices(walls, k + 1)

RECURSIVE WallLoop(_, _, _, _, _)
\* the body of the loops: a triangle with fewer than 3 rows is skipped
WallLoop(vertices, indices, k, scale, walls) ==
    IF k > Len(indices) THEN walls
    ELSE LET triangle_verts == TriangleVerts(vertices, indices[k])
         IN  IF Len(triangle_verts) < 3
             THEN WallLoop(vertices, indices, k + 1, scale, walls)
             ELSE WallLoop(vertices, indices, k + 1, scale,
                           Append(walls, [i \in 1..3 |-> ScaledVertex(triangle_verts[i], scale)]))

\* mutant of NoWalls
NoWalls_Unchecked(walls) == FALSE

\* "if len(walls) == 0"
NoWalls(walls) == Len(walls) = 0

\* simulate up to the construction of the room, then the engine's outcome
Simulate(walls_arg, vertices, factor, exists, outcome) ==
    LET scale == IF factor = None THEN DefaultScaleFactor ELSE factor
    IN  IF ~exists
        THEN [raised |-> <<"FileNotFoundError">>, walls |-> None, room |-> None]
        ELSE IF walls_arg = None \/ Len(walls_arg) = 0
        THEN [raised |-> <<"ValueError">>, walls |-> None, room |-> None]
        ELSE IF Len(vertices) = 0
        THEN [raised |-> <<"ValueError">>, walls |-> None, room |-> None]
        ELSE LET walls == WallLoop(vertices, TriangleIndices(walls_arg, 1), 1, scale, <<>>)
             IN  IF NoWalls(walls)
                 THEN [raised |-> <<"ValueError">>, walls |-> walls, room |-> None]
                 ELSE [raised |-> outcome, walls |-> walls, room |-> <<Len(walls)>>]

\* what the steps after the construction of the room may raise
EngineOutcomes == {None, <<"ValueError">>, <<"RuntimeError">>}
ScaleFactors == {None, [num |-> 2, den |-> 1]}

\* a call of simulate
SimulateCall(outcome) ==
    /\ pc = "call"
    /\ pc' = "simulated"
    /\ LET r == Simulate(walls_from_render, model_vertices, scale_factor, source_exists, outcome)
       IN  /\ UNCHANGED grouping
           /\ raised' = r.raised
           /\ pra_walls' = r.walls
           /\ room' = r.room
    /\ UNCHANGED <<meshVars, segVars, registryVars, mouseVars, pickVars, cameraVars,
                   volVars, walls_from_render, model_vertices, scale_factor,
                   source_exists, appVars>>

\* the engine's outcome matters only once the room is constructed
Outcomes(walls_arg, vertices, factor, exists) ==
    IF Simulate(walls_arg, vertices, factor, exists, None).room = None
    THEN {None} ELSE EngineOutcomes

\* wall dictionaries: the 'triangles' lists of up to two indices among 1..3
WallInfos == {<<>>} \cup {<<t>> : t \in 1..3} \cup {<<t, u>> : t \in 1..3, u \in 1..3}
\* None and [] are both the empty tuple
WallLists == UNION {[1..n -> WallInfos] : n \in 0..MaxWalls}
\* arrays of 0, 3, 5 and 6 rows: no triangle, one, one and a part, two
VertexArrays == {[k \in 1..n |-> 10 + k] : n \in {0, 3, 5, 6}}

InitAcoustic ==
    /\ pc = "call"
    /\ triangles = None
    /\ Unbuilt
    /\ center = None
    /\ volume = None
    /\ render2_walls = None
    /\ grouping = None
    /\ raised = None
    /\ walls_from_render \in WallLists
    /\ model_vertices \in VertexArrays
    /\ scale_factor \in ScaleFactors
    /\ source_exists \in BOOLEAN
    /\ pra_walls = None
    /\ room = None
    /\ renderer = None
    /\ running = None
    /\ filepath = None
    /\ load_result = None
    /\ left_button = None

NextAcoustic ==
    \E outcome \in Outcomes(walls_from_render, model_vertices, scale_factor, source_exists) :
        SimulateCall(outcome)

SpecAcoustic == InitAcoustic /\ [][NextAcoustic]_vars

(***************************************************************************)
(* simulate on the walls and vertices of a constructed Render.             *)
(***************************************************************************)
RECURSIVE SortedList(_)
\* list(surface), in ascending order of the indices
SortedList(S) ==
    IF S = {} THEN <<>>
    ELSE LET least == CHOOSE t \in S : \A u \in S : t <= u
         IN  <<least>> \o SortedList(S \ {least})

\* get_walls_for_acoustic: one wall per surface, holding its triangle indices
GetWallsForAcoustic == [s \in 1..Len(surfaces) |-> SortedList(surfaces[s])]
\* get_model_vertices: self.model.vectors.reshape(-1, 3)
GetModelVertices ==
    [k \in 1..(3 * Len(triangles)) |-> triangles[((k - 1) \div 3) + 1][((k - 1) % 3) + 1]]

\* simulate(get_walls_for_acoustic(), ..., get_model_vertices(), scale_factor)
SimulateRender(factor, exists, outcome) ==
    /\ pc = "ready"
    /\ pc' = "simulated"
    /\ walls_from_render' = GetWallsForAcoustic
    /\ model_vertices' = GetModelVertices
    /\ scale_factor' = factor
    /\ source_exists' = exists
    /\ LET r == Simulate(walls_from_render', model_vertices', factor, exists, outcome)
       IN  /\ UNCHANGED grouping
           /\ raised' = r.raised
           /\ pra_walls' = r.walls
           /\ room' = r.room
    /\ UNCHANGED <<meshVars, segVars, registryVars, mouseVars, pickVars, cameraVars,
                   volVars, appVars>>

\* a Render constructed on a strip mesh
InitWalls ==
    /\ pc = "ready"
    /\ \E n \in 1..MaxTris : \E tris \in [1..n -> SegFacets] : \E nrm \in [1..n -> NormalDirs] :
          Constructed(tris, nrm, RenderAngleThreshold)
    /\ event = None
    /\ ray = None
    /\ hit_tri = None
    /\ CameraConstructed(RoomSize)
    /\ Idle

NextWalls ==
    \E factor \in ScaleFactors : \E exists \in BOOLEAN :
        \E outcome \in Outcomes(GetWallsForAcoustic, GetModelVertices, factor, exists) :
            SimulateRender(factor, exists, outcome)

SpecWalls == InitWalls /\ [][NextWalls]_vars

(***************************************************************************)
(* MainApplication: load_stl_file, open_stl_file_dialog and quitting.      *)
(* The Render fields are those of the Render constructed last, which the   *)
(* application reaches through self.renderer only.  The steps of a load    *)
(* are numbered in the order they run:                                     *)
(*   1 the OpenGL set-up of Render.__init__      6 compute_feature_edges   *)
(*   2 mesh.Mesh.from_file                       7 group_triangles_into_surfaces *)
(*   3 compute_center_and_size                   8 surface_colors, surface_materials *)
(*   4 auto_normalize_scale                      9 triangle_to_surface     *)
(*   5 the camera and mouse fields              10 connect_renderer_to_property_panel *)
(* and step 11 stands for the return of True.                              *)
(***************************************************************************)
ReturnStep == 11
\* the files a path may name: a mesh of at least one triangle, an STL file
\* without triangles, and no readable file
ValidFiles ==
    {[kind |-> "valid", triangles |-> FanTriangles(n), normals |-> nrm] :
        n \in 1..MaxFan, nrm \in UNION {[1..m -> FanNormalDirs] : m \in 1..MaxFan}}
StlFiles ==
    {file \in ValidFiles : Len(file.normals) = Len(file.triangles)}
    \cup {[kind |-> "empty", triangles |-> <<>>, normals |-> <<>>], [kind |-> "missing"]}
\* the steps at which the environment (OpenGL, memory, the property panel)
\* may raise; 0: nowhere
EnvFailures == {0, 1, 4, 7, 9, 10}

\* the first step that raises; ReturnStep if none does: from_file raises for
\* an unreadable file and np.min for a mesh without triangles
RaiseStep(file, env_fail) ==
    LET file_fail == IF file.kind = "missing" THEN 2
                     ELSE IF file.kind = "empty" THEN 3 ELSE ReturnStep
    IN  IF env_fail # 0 /\ env_fail < file_fail THEN env_fail ELSE file_fail

\* the exception raised at a step
ExceptionAt(file, step) ==
    IF step = 2 /\ file.kind = "missing" THEN "FileNotFoundError"
    ELSE IF step = 3 /\ file.kind = "empty" THEN "ValueError"
    ELSE IF step \in {1, 4} THEN "GLError"
    ELSE IF step = 10 THEN "AttributeError"
    ELSE "MemoryError"

\* mutant of Caught
Caught_FileErrorsOnly(exception) == exception \in {"FileNotFoundError", "ValueError"}

\* "except Exception as e"
Caught(exception) == TRUE

\* mutant of RendererAfterFailure
RendererAfterFailure_Kept(assigned) == assigned

\* "self.renderer = None" of the except clause; assigned is self.renderer
\* when the exception was raised
RendererAfterFailure(assigned) == None

\* load_stl_file(filepath), with the step at which the environment fails
LoadStlFile(file, env_fail) ==
    LET step == RaiseStep(file, env_fail)
        \* line 77, then line 91 once the constructor has returned
        assigned == IF step > 9 THEN <<"Render">> ELSE None
    IN  \E fe \in {IF step > 6
                   THEN ComputeFeatureEdges(file.triangles, file.normals, RenderAngleThreshold)
                   ELSE {}} :
        \E surfs \in {IF step > 7 THEN GroupTrianglesIntoSurfaces(file.triangles, fe) ELSE <<>>} :
        /\ pc = "app"
        /\ event' = [type |-> "load_stl_file", env_fail |-> env_fail]
        /\ filepath' = file
        /\ triangles' = IF step > 2 THEN file.triangles ELSE None
        /\ normals' = IF step > 2 THEN file.normals ELSE None
        /\ size' = IF step > 3 THEN RoomSize ELSE None
        /\ model_scale_factor' = IF step > 4 THEN AutoScaleFactor(RoomSize) ELSE None
        /\ camera_distance' = IF step > 4 THEN 25 * ScaledSize(RoomSize) ELSE None
        /\ min_distance' = IF step > 4 THEN 2 * ScaledSize(RoomSize) ELSE None
        /\ max_distance' = IF step > 4 THEN 50 * ScaledSize(RoomSize) ELSE None
        /\ camera_heading' = IF step > 5 THEN InitialHeading ELSE None
        /\ camera_pitch' = IF step > 5 THEN InitialPitch ELSE None
        /\ transparent_mode' = IF step > 5 THEN FALSE ELSE None
        /\ render_running' = None
        /\ mouse_down' = FALSE
        /\ last_mouse_pos' = None
        /\ mouse_down_pos' = None
        /\ angle_threshold' = IF step > 6 THEN RenderAngleThreshold ELSE None
        /\ feature_edges' = fe
        /\ surfaces' = surfs
        /\ surface_colors' = IF step > 8 THEN [s \in 1..Len(surfs) |-> default_surface_color] ELSE <<>>
        /\ surface_materials' = IF step > 8 THEN [s \in 1..Len(surfs) |-> NoMaterial] ELSE <<>>
        /\ triangle_to_surface' = IF step > 9 THEN TriangleToSurface(surfs) ELSE <<>>
        /\ ray' = None
        /\ hit_tri' = None
        /\ IF step = ReturnStep
           THEN /\ renderer' = assigned
                /\ load_result' = <<TRUE>>
                /\ UNCHANGED grouping
                /\ raised' = None
           ELSE IF Caught(ExceptionAt(file, step))
           THEN /\ renderer' = RendererAfterFailure(assigned)
                /\ load_result' = <<FALSE>>
                /\ UNCHANGED grouping
                /\ raised' = None
           ELSE /\ renderer' = assigned
                /\ load_result' = None
                /\ UNCHANGED grouping
                /\ raised' = <<ExceptionAt(file, step)>>
        /\ UNCHANGED <<pc, running, left_button, volVars, acousticVars>>

\* what the file dialog may give: no tkinter, no file chosen, or a path
DialogResults == {[kind |-> "ImportError"], [kind |-> "cancelled"]} \cup StlFiles

\* open_stl_file_dialog: it loads only when a path was chosen
OpenStlFileDialog(chosen, env_fail) ==
    IF chosen.kind \in {"valid", "empty", "missing"}
    THEN LoadStlFile(chosen, env_fail)
    ELSE /\ pc = "app"
         /\ event' = [type |-> "open_stl_file_dialog", chosen |-> chosen.kind]
         /\ UNCHANGED grouping
         /\ raised' = None
         /\ UNCHANGED <<pc, meshVars, segVars, registryVars, mouseVars, ray, hit_tri,
                        cameraVars, volVars, acousticVars, appVars>>

\* a QUIT event of handle_events, or on_exit
AppQuit ==
    /\ pc = "app"
    /\ event' = [type |-> "QUIT"]
    /\ running' = FALSE
    /\ UNCHANGED grouping
    /\ raised' = None
    /\ UNCHANGED <<pc, meshVars, segVars, registryVars, mouseVars, ray, hit_tri,
                   cameraVars, volVars, acousticVars, renderer, filepath, load_result,
                   left_button>>

\* mutant of RendererAfterNewProject
RendererAfterNewProject_Kept(current) == current

\* "self.renderer = None" of on_new_project
RendererAfterNewProject(current) == None

\* on_new_project: the Render is dropped, its fields are left to the collector
OnNewProject ==
    /\ pc = "app"
    /\ event' = [type |-> "on_new_project"]
    /\ renderer' = RendererAfterNewProject(renderer)
    /\ UNCHANGED grouping
    /\ raised' = None
    /\ UNCHANGED <<pc, meshVars, segVars, registryVars, mouseVars, ray, hit_tri,
                   cameraVars, volVars, acousticVars, running, filepath, load_result,
                   left_button>>

\* the parameters of Acoustic.simulate after self; the last has a default
SimulateParameters == <<"walls_from_render", "room_center", "model_vertices", "scale_factor">>
\* the positional arguments of the call at line 460 of on_render
OnRenderArguments ==
    <<"walls", "room_center", "model_vertices", "scale_factor", "sound_source_file">>
\* whether a call with these positional arguments binds to simulate's
\* parameters; if not, the call raises TypeError and the body never runs
Binds(arguments) ==
    /\ Len(arguments) <= Len(SimulateParameters)
    /\ Len(arguments) >= Len(SimulateParameters) - 1

\* the branch of on_render that handles what the try block raised
RenderBranch(exception) ==
    IF exception = None THEN "SIMULATION COMPLETE"
    ELSE IF exception = <<"FileNotFoundError">> THEN "File not found"
    ELSE IF exception = <<"ValueError">> THEN "Invalid input"
    ELSE IF exception = <<"RuntimeError">> THEN "Simulation error"
    ELSE "Unexpected error"

\* "if not self.renderer"
NoModel == renderer = None

\* on_render, with whether the sound source exists and what the engine
\* would raise once the room is built
OnRender(exists, outcome) ==
    /\ pc = "app"
    /\ UNCHANGED grouping
    /\ raised' = None
    /\ IF NoModel
       THEN /\ event' = [type |-> "on_render", called |-> FALSE, exists |-> exists,
                         outcome |-> outcome, branch |-> "no model", output_file |-> None]
            /\ UNCHANGED acousticVars
       ELSE IF ~Binds(OnRenderArguments)
       THEN /\ event' = [type |-> "on_render", called |-> TRUE, exists |-> exists,
                         outcome |-> outcome, branch |-> RenderBranch(<<"TypeError">>),
                         output_file |-> None]
            /\ UNCHANGED acousticVars
       ELSE /\ walls_from_render' = GetWallsForAcoustic
            /\ model_vertices' = GetModelVertices
            /\ scale_factor' = model_scale_factor
            /\ source_exists' = exists
            /\ LET r == Simulate(walls_from_render', model_vertices', scale_factor',
                                 exists, outcome)
               IN  /\ pra_walls' = r.walls
                   /\ room' = r.room
                   /\ event' = [type |-> "on_render", called |-> TRUE, exists |-> exists,
                                outcome |-> outcome, branch |-> RenderBranch(r.raised),
                                output_file |-> IF r.raised = None
                                                THEN <<"sounds/simulations/output.wav">>
                                                ELSE None]
    /\ UNCHANGED <<pc, meshVars, segVars, registryVars, mouseVars, ray, hit_tri,
                   cameraVars, volVars, appVars>>

\* MainApplication.__init__: running, no renderer
InitApp ==
    /\ pc = "app"
    /\ triangles = None
    /\ Unbuilt
    /\ center = None
    /\ volume = None
    /\ render2_walls = None
    /\ grouping = None
    /\ raised = None
    /\ walls_from_render = None
    /\ model_vertices = None
    /\ scale_factor = None
    /\ source_exists = None
    /\ pra_walls = None
    /\ room = None
    /\ renderer = None
    /\ running = TRUE
    /\ filepath = None
    /\ load_result = None
    /\ left_button = None

NextApp ==
    \/ \E file \in StlFiles : \E env_fail \in EnvFailures : LoadStlFile(file, env_fail)
    \/ \E chosen \in DialogResults : \E env_fail \in EnvFailures :
          OpenStlFileDialog(chosen, env_fail)
    \/ AppQuit
    \/ OnNewProject
    \/ \E exists \in BOOLEAN : \E outcome \in EngineOutcomes : OnRender(exists, outcome)

SpecApp == InitApp /\ [][NextApp]_vars

(***************************************************************************)
(* handle_events of MainApplication: the mouse events of the window, which *)
(* reach check_keybinds only when their position lies in the viewport.     *)
(***************************************************************************)
\* pygame.Rect(200, 90, self.width - 400, self.height - 220) of a 1200 x 800 window
ViewportRect == [x |-> 200, y |-> 90, w |-> 800, h |-> 580]
\* Rect.collidepoint
CollidePoint(rect, pos) ==
    /\ rect.x <= pos[1] /\ pos[1] < rect.x + rect.w
    /\ rect.y <= pos[2] /\ pos[2] < rect.y + rect.h

\* two positions in the viewport, a drag apart, and one on the menu bar
WindowPositions ==
    {<<ViewportRect.x, ViewportRect.y>>, <<ViewportRect.x + DragX, ViewportRect.y + DragY>>,
     <<0, 0>>}

\* "if self.viewport_rect and self.renderer", then collidepoint(event.pos)
Routed(pos) == renderer # None /\ CollidePoint(ViewportRect, pos)

\* the fields of the Render
renderVars == <<meshVars, segVars, registryVars, mouseVars, pickVars, cameraVars>>

\* handle_events on MOUSEBUTTONDOWN, button 1
RoutedLeftPress(pos) ==
    /\ pc = "app"
    /\ ~left_button.held
    /\ left_button' = [left_button EXCEPT !.held = TRUE, !.press_pos = pos,
                                          !.delivered = Routed(pos)]
    /\ IF Routed(pos) THEN PressHandled(pos) ELSE UNCHANGED renderVars
    /\ UNCHANGED <<pc, volVars, raised, grouping, acousticVars, renderer, running, filepath,
                   load_result>>

\* handle_events on MOUSEBUTTONUP, button 1
RoutedLeftRelease(pos, r) ==
    /\ pc = "app"
    /\ left_button.held
    /\ left_button' = [left_button EXCEPT !.held = FALSE, !.release_pos = pos]
    /\ IF Routed(pos) THEN ReleaseHandled(pos, r) ELSE UNCHANGED renderVars
    /\ UNCHANGED <<pc, volVars, raised, grouping, acousticVars, renderer, running, filepath,
                   load_result>>

\* handle_events on MOUSEMOTION
RoutedMouseMotion(pos) ==
    /\ pc = "app"
    /\ IF Routed(pos) THEN MotionHandled(pos) ELSE UNCHANGED renderVars
    /\ UNCHANGED <<pc, volVars, raised, grouping, acousticVars, appVars>>

\* the application with a model of two triangles loaded, the button up
InitRouted ==
    /\ pc = "app"
    /\ \E dir \in FanNormalDirs :
          /\ Constructed(FanTriangles(2), <<0, dir>>, RenderAngleThreshold)
          /\ filepath = [kind |-> "valid", triangles |-> FanTriangles(2), normals |-> <<0, dir>>]
    /\ event = None
    /\ ray = None
    /\ hit_tri = None
    /\ CameraConstructed(RoomSize)
    /\ center = None
    /\ volume = None
    /\ render2_walls = None
    /\ grouping = None
    /\ raised = None
    /\ walls_from_render = None
    /\ model_vertices = None
    /\ scale_factor = None
    /\ source_exists = None
    /\ pra_walls = None
    /\ room = None
    /\ renderer = <<"Render">>
    /\ running = TRUE
    /\ load_result = <<TRUE>>
    /\ left_button = [held |-> FALSE, press_pos |-> None, delivered |-> FALSE,
                      release_pos |-> None]

\* the rays of a release that is handled as a click
RoutedReleaseRays(pos) ==
    IF Routed(pos) /\ mouse_down_pos # None /\ IsClick(mouse_down_pos, pos)
    THEN EventRays ELSE {None}

NextRouted ==
    \/ \E pos \in WindowPositions : RoutedLeftPress(pos)
    \/ \E pos \in WindowPositions : \E r \in RoutedReleaseRays(pos) : RoutedLeftRelease(pos, r)
    \/ \E pos \in WindowPositions : RoutedMouseMotion(pos)

SpecRouted == InitRouted /\ [][NextRouted]_vars

(***************************************************************************)
(* The picking loop alone, over every ray.                                 *)
(***************************************************************************)
InitPick ==
    /\ pc = "aim"
    /\ \E n \in 1..MaxTris :
          /\ \E nrm \in [1..n -> FanNormalDirs] :
                Constructed(FanTriangles(n), nrm, RenderAngleThreshold)
          /\ ray \in [1..n -> IntersectSamples]
    /\ event = None
    /\ hit_tri = None
    /\ CameraConstructed(RoomSize)
    /\ Idle

Pick ==
    /\ pc = "aim"
    /\ pc' = "picked"
    /\ hit_tri' = PickTriangle(ray)
    /\ UNCHANGED <<meshVars, segVars, registryVars, mouseVars, event, ray, cameraVars, restVars>>

NextPick == Pick

SpecPick == InitPick /\ [][NextPick]_vars

(***************************************************************************)
(* Properties of the segmentation (specification SpecSeg).                 *)
(***************************************************************************)
NTris == Len(triangles)
TriIdx == 1..NTris
SurfIdx == 1..Len(surfaces)
MeshEdges == UNION {EdgesOfTri(triangles[t]) : t \in TriIdx}
\* the triangles an edge belongs to
TrisWithEdge(edge) == {t \in TriIdx : edge \in EdgesOfTri(triangles[t])}
SameSurface(t1, t2) == \E s \in SurfIdx : t1 \in surfaces[s] /\ t2 \in surfaces[s]
SharesNonFeatureEdge(t1, t2) ==
    \E edge \in EdgesOfTri(triangles[t1]) \cap EdgesOfTri(triangles[t2]) :
        edge \notin feature_edges

RECURSIVE ChainClosure(_)
\* the triangles linked to a triangle of S by a chain of non-feature edges
ChainClosure(S) ==
    LET S2 == S \cup {t \in TriIdx : \E u \in S : SharesNonFeatureEdge(u, t)}
    IN  IF S2 = S THEN S ELSE ChainClosure(S2)

\* C1: the surfaces partition the triangle indices: every index is in exactly
\* one surface, no surface is empty, and triangle_to_surface is total with
\* triangle_to_surface[t] = s exactly when t is in surfaces[s].
C1_SurfacesPartition ==
    pc = "ready" =>
        /\ \A s \in SurfIdx : surfaces[s] # {} /\ surfaces[s] \subseteq TriIdx
        /\ \A t \in TriIdx : Cardinality({s \in SurfIdx : t \in surfaces[s]}) = 1
        /\ DOMAIN triangle_to_surface = TriIdx
        /\ \A t \in TriIdx : \A s \in SurfIdx :
              (triangle_to_surface[t] = s) <=> (t \in surfaces[s])

C1_Witness ==
    /\ pc = "ready"
    /\ NTris = 3
    /\ Len(surfaces) = 2
    /\ \E s \in SurfIdx : Cardinality(surfaces[s]) = 2

\* C2: two triangles are in the same surface if and only if a chain of
\* triangles, consecutive ones sharing a non-feature edge, links them.
C2_SurfacesAreComponents ==
    pc = "ready" =>
        \A t1 \in TriIdx :
            {t2 \in TriIdx : SameSurface(t1, t2)} = ChainClosure({t1})

\* a surface whose first and last triangle are linked only through the middle one
C2_Witness ==
    /\ pc = "ready"
    /\ NTris = 3
    /\ SameSurface(1, 3)
    /\ ~SharesNonFeatureEdge(1, 3)
    /\ Len(surfaces) = 1

\* C3 as stated: an edge shared by more than two triangles is a feature edge.
C3_NonManifoldIsFeature ==
    pc = "ready" =>
        \A edge \in MeshEdges :
            Cardinality(TrisWithEdge(edge)) > 2 => edge \in feature_edges

\* C3 amended: an edge shared by more than two triangles is never a feature
\* edge, and all the triangles sharing it are in one surface.
C3_NonManifoldIsCrossed ==
    pc = "ready" =>
        \A edge \in MeshEdges :
            Cardinality(TrisWithEdge(edge)) > 2 =>
                /\ edge \notin feature_edges
                /\ \A t1 \in TrisWithEdge(edge) : \A t2 \in TrisWithEdge(edge) :
                      SameSurface(t1, t2)

C3_Witness ==
    /\ pc = "ready"
    /\ \E edge \in MeshEdges :
          /\ Cardinality(TrisWithEdge(edge)) > 2
          /\ \E t1 \in TrisWithEdge(edge) : \E t2 \in TrisWithEdge(edge) :
                NormalAngle(normals[t1], normals[t2]) > angle_threshold

C5_CreaseIffAngleAboveThreshold ==
    pc = "ready" =>
        \A edge \in MeshEdges :
            LET sharing == TrisWithEdge(edge)
            IN  Cardinality(sharing) = 2 =>
                    ((edge \in feature_edges) <=>
                     (\E t1 \in sharing : \E t2 \in sharing :
                         NormalAngle(normals[t1], normals[t2]) > angle_threshold))

\* an edge whose angle equals the threshold, and one above it
C5_Witness ==
    /\ pc = "ready"
    /\ \E edge \in MeshEdges : \E t1 \in TriIdx : \E t2 \in TriIdx :
          /\ t1 # t2
          /\ TrisWithEdge(edge) = {t1, t2}
          /\ NormalAngle(normals[t1], normals[t2]) = angle_threshold
          /\ edge \notin feature_edges
    /\ \E edge \in MeshEdges : Cardinality(TrisWithEdge(edge)) = 2 /\ edge \in feature_edges

SwapSeq(seq, i, j) ==
    [k \in 1..Len(seq) |-> IF k = i THEN seq[j] ELSE IF k = j THEN seq[i] ELSE seq[k]]
RotateTri(tris, t) == [tris EXCEPT ![t] = <<@[2], @[3], @[1]>>]
ReverseTri(tris, t) == [tris EXCEPT ![t] = <<@[3], @[2], @[1]>>]

\* C6: the feature edge set is the same when two triangles of the list are
\* exchanged (and so, the meshes being closed under exchanges, for every
\* order of the triangles), when a triangle's vertices are rotated, and when
\* they are reversed, which swaps the endpoints of each of its edges.
C6_FeatureEdgesOrderIndependent ==
    pc = "ready" =>
        /\ \A i \in TriIdx : \A j \in (i + 1)..NTris :
              ComputeFeatureEdges(SwapSeq(triangles, i, j), SwapSeq(normals, i, j),
                                  angle_threshold) = feature_edges
        /\ \A t \in TriIdx :
              /\ ComputeFeatureEdges(RotateTri(triangles, t), normals,
                                     angle_threshold) = feature_edges
              /\ ComputeFeatureEdges(RotateTri(RotateTri(triangles, t), t), normals,
                                     angle_threshold) = feature_edges
              /\ ComputeFeatureEdges(ReverseTri(triangles, t), normals,
                                     angle_threshold) = feature_edges

\* a mesh with a crease, a smooth interior edge and distinct triangles
C6_Witness ==
    /\ pc = "ready"
    /\ NTris = 3
    /\ triangles[1] # triangles[2]
    /\ normals[1] # normals[2]
    /\ \E edge \in MeshEdges : Cardinality(TrisWithEdge(edge)) = 2 /\ edge \in feature_edges
    /\ \E edge \in MeshEdges : Cardinality(TrisWithEdge(edge)) = 2 /\ edge \notin feature_edges

(***************************************************************************)
(* Properties of the picking loop (specification SpecPick).                *)
(***************************************************************************)
\* the ray's line meets triangle i: not parallel, u and v inside the triangle
MeetsTriangle(r, i) ==
    /\ r[i].a # 0
    /\ r[i].u >= 0 /\ r[i].u <= 1
    /\ r[i].v >= 0 /\ r[i].u + r[i].v <= 1
\* the triangles the ray hits in front of its origin (t > eps)
ValidHits(r) == {i \in 1..Len(r) : MeetsTriangle(r, i) /\ r[i].t > 0}

\* C7: the picking loop selects a triangle of minimum t among the triangles
\* hit with t > eps, never one met at or behind the origin, and None if no
\* triangle has a valid hit.
C7_PickIsNearestValidHit ==
    pc = "picked" =>
        IF ValidHits(ray) = {}
        THEN hit_tri = None
        ELSE /\ hit_tri # None
             /\ hit_tri[1] \in ValidHits(ray)
             /\ \A j \in ValidHits(ray) : ray[hit_tri[1]].t <= ray[j].t

\* the first triangle is met behind the origin, the second is a farther valid
\* hit than the third, and the third is selected
C7_Witness ==
    /\ pc = "picked"
    /\ Len(ray) = 3
    /\ MeetsTriangle(ray, 1) /\ ray[1].t < 0
    /\ ValidHits(ray) = {2, 3}
    /\ ray[3].t < ray[2].t
    /\ hit_tri = <<3>>

(***************************************************************************)
(* Properties of the registry under check_keybinds (specification Spec).   *)
(***************************************************************************)
RightPressEvent == MouseEvent("MOUSEBUTTONDOWN", 3)
LeftReleaseEvent == MouseEvent("MOUSEBUTTONUP", 1)

\* C8: a right click, or a left click, whose pick hits no triangle leaves
\* surface_colors and surface_materials as they were.
C8_MissChangesNothing ==
    [][((event' = RightPressEvent \/ event' = LeftReleaseEvent)
            /\ ray' # None /\ ValidHits(ray') = {})
        => (surface_colors' = surface_colors /\ surface_materials' = surface_materials)]_vars

\* a pick that missed, with a texture and a changed colour in the registry
C8_Witness ==
    /\ event = RightPressEvent
    /\ ray # None
    /\ ValidHits(ray) = {}
    /\ hit_tri = None
    /\ \E s \in SurfIdx : surface_materials[s] = Textured
    /\ \E s \in SurfIdx : surface_colors[s] # default_surface_color

\* C9: after a right click that hits a surface, that surface's material is
\* None, whatever it was before.
C9_ColorChangeClearsMaterial ==
    [][(event' = RightPressEvent /\ hit_tri' # None)
        => surface_materials'[triangle_to_surface[hit_tri'[1]]] = NoMaterial]_vars

\* a right click has hit a surface of two triangles after a left click
C9_Witness ==
    /\ event = RightPressEvent
    /\ hit_tri # None
    /\ Cardinality(surfaces[triangle_to_surface[hit_tri[1]]]) = 2
    /\ surface_materials[triangle_to_surface[hit_tri[1]]] = NoMaterial
    /\ surface_colors[triangle_to_surface[hit_tri[1]]] \in RandomColors
    /\ last_mouse_pos # None
    /\ mouse_down_pos = None

\* C10: a left click that hits a surface sets that surface's material to
\* textured and leaves every entry of surface_colors unchanged.
C10_TextureApplyKeepsColors ==
    [][(event' = LeftReleaseEvent /\ hit_tri' # None)
        => /\ surface_materials'[triangle_to_surface[hit_tri'[1]]] = Textured
           /\ surface_colors' = surface_colors]_vars

\* a textured surface that keeps its changed colour
C10_Witness ==
    /\ event = LeftReleaseEvent
    /\ hit_tri # None
    /\ surface_materials[triangle_to_surface[hit_tri[1]]] = Textured
    /\ surface_colors[triangle_to_surface[hit_tri[1]]] \in RandomColors

KeyREvent == KeyEvent("r")

\* C11: after key R, from any reachable registry state, every surface has the
\* default colour and material None; a reset that follows a reset leaves the
\* registry as the first one left it.
C11_ResetRestoresDefaults ==
    [][event' = KeyREvent =>
          /\ DOMAIN surface_colors' = SurfIdx
          /\ DOMAIN surface_materials' = SurfIdx
          /\ \A s \in SurfIdx : /\ surface_colors'[s] = default_surface_color
                                /\ surface_materials'[s] = NoMaterial
          /\ (event = KeyREvent =>
                 surface_colors' = surface_colors /\ surface_materials' = surface_materials)]_vars

\* a reset of two surfaces, after the mouse was used
C11_Witness ==
    /\ event = KeyREvent
    /\ Len(surfaces) = 2
    /\ last_mouse_pos # None
    /\ \A s \in SurfIdx : /\ surface_colors[s] = default_surface_color
                          /\ surface_materials[s] = NoMaterial

(***************************************************************************)
(* The registry right after construction (specification SpecSeg).          *)
(***************************************************************************)
\* C12: right after construction the registry holds exactly one colour entry
\* and one material entry per surface, every colour the default and every
\* material None.
C12_RegistryInitialised ==
    pc = "ready" =>
        /\ DOMAIN surface_colors = SurfIdx
        /\ DOMAIN surface_materials = SurfIdx
        /\ \A s \in SurfIdx : /\ surface_colors[s] = default_surface_color
                              /\ surface_materials[s] = NoMaterial

\* three triangles in two surfaces
C12_Witness ==
    /\ pc = "ready"
    /\ NTris = 3
    /\ Len(surfaces) = 2
    /\ Len(surface_colors) = 2
    /\ Len(surface_materials) = 2

(***************************************************************************)
(* The segmentation under every event (specification SpecEvents).          *)
(***************************************************************************)
\* C13: no event handled by check_keybinds changes surfaces,
\* triangle_to_surface or feature_edges: after any sequence of events they
\* are what the construction computed from the mesh, and surface_colors and
\* surface_materials have one entry per surface.
C13_SurfacesImmutable ==
    pc = "ready" =>
        /\ feature_edges = ComputeFeatureEdges(triangles, normals, angle_threshold)
        /\ surfaces = GroupTrianglesIntoSurfaces(triangles, feature_edges)
        /\ triangle_to_surface = TriangleToSurface(surfaces)
        /\ Len(surface_colors) = Len(surfaces)
        /\ Len(surface_materials) = Len(surfaces)

\* after a quit, a toggle, a zoom, a drag, a recolouring and a texture
C13_Witness ==
    /\ render_running = <<FALSE>>
    /\ transparent_mode
    /\ camera_distance = min_distance
    /\ camera_pitch = MaxPitch
    /\ camera_heading # InitialHeading
    /\ event = KeyREvent
    /\ Len(surfaces) = 1
    /\ NTris = 2

(***************************************************************************)
(* Properties of the two room centers (specification SpecVol).             *)
(***************************************************************************)
\* the two end points of side i of triangle t
SideEnds(mesh, t, i) == {mesh[t][i], mesh[t][(i % 3) + 1]}
\* closed (watertight): every edge belongs to exactly two triangles
IsClosed(mesh) ==
    \A t \in 1..Len(mesh) : \A i \in 1..3 :
        Cardinality({side \in (1..Len(mesh)) \X (1..3) :
                        SideEnds(mesh, side[1], side[2]) = SideEnds(mesh, t, i)}) = 2
\* equality of two points given as numerators over a denominator
SamePoint(a, b) == Scale3(a.num, b.den) = Scale3(b.num, a.den)
\* the lowest corner and the sides of the bounding box
LowCorner(mesh) ==
    LET points == MeshPoints(mesh)
    IN  <<AxisMin(points, 1), AxisMin(points, 2), AxisMin(points, 3)>>
HighCorner(mesh) ==
    LET points == MeshPoints(mesh)
    IN  <<AxisMax(points, 1), AxisMax(points, 2), AxisMax(points, 3)>>
BoxSides(mesh) == Add3(HighCorner(mesh), Scale3(LowCorner(mesh), -1))
\* the mesh is the closed, outward oriented box of 12 triangles
IsWholeBox(mesh) ==
    /\ Len(mesh) = 12
    /\ \E o \in {LowCorner(mesh)} : \E d \in {BoxSides(mesh)} : mesh = BoxTriangles(o, d)

\* C14 as stated: compute_volumetric_properties fails with an error for every
\* mesh that is not closed.
C14_OpenMeshFails ==
    (pc = "render2" /\ ~IsClosed(triangles)) => raised # None

\* C15: for a closed, consistently oriented axis-aligned box of 12 triangles
\* compute_volumetric_properties does not fail, and returns the middle of the
\* box and its volume, wherever the box lies relative to the origin.
C15_BoxCenterIsExact ==
    (pc = "render2" /\ IsWholeBox(triangles)) =>
        /\ raised = None
        /\ \E lo \in {LowCorner(triangles)} : \E hi \in {HighCorner(triangles)} :
              /\ SamePoint(center, [num |-> Add3(lo, hi), den |-> 2])
              /\ volume = <<6 * (hi[1] - lo[1]) * (hi[2] - lo[2]) * (hi[3] - lo[3])>>

\* a box of sides 1, 2, 1 that does not contain the origin
C15_Witness ==
    /\ pc = "render2"
    /\ triangles = BoxTriangles(<<1, -1, 1>>, <<1, 2, 1>>)
    /\ raised = None
    /\ SamePoint(center, [num |-> <<3, 0, 3>>, den |-> 2])

\* C18 as stated: the room center get_room_center returns is the volumetric
\* centroid of the mesh, for every closed mesh.
C18_RoomCenterIsVolumetric ==
    (pc = "render" /\ IsClosed(triangles)) =>
        LET v == ComputeVolumetricProperties(triangles)
        IN  v.raised = None /\ SamePoint(GetRoomCenter, v.center)

(***************************************************************************)
(* Properties of Acoustic.simulate (specifications SpecAcoustic, SpecWalls).*)
(***************************************************************************)
\* the places <<wall, k>> of a wall list whose triangle has its three rows
\* in the vertex array
UsablePlaces ==
    {place \in (1..Len(walls_from_render)) \X (1..3) :
        /\ place[2] <= Len(walls_from_render[place[1]])
        /\ 3 * walls_from_render[place[1]][place[2]] <= Len(model_vertices)}

\* C16 as stated: simulate fails with a geometry error (ValueError) whenever
\* the wall list is empty or no wall triangle is produced from it, and the
\* room is never constructed from zero walls.
C16_NoWallsIsGeometryError ==
    /\ (pc = "simulated" /\ UsablePlaces = {}) => raised = <<"ValueError">>
    /\ room # None => room[1] >= 1

\* C16 amended: whenever the wall list is empty or no wall triangle is
\* produced from it, simulate fails without constructing the room, with
\* FileNotFoundError if the sound source file is missing and with a geometry
\* error (ValueError) otherwise; the room is never constructed from zero
\* walls.
C16_NoWallsNeverSimulated ==
    /\ (pc = "simulated" /\ UsablePlaces = {}) =>
          /\ room = None
          /\ raised = IF source_exists THEN <<"ValueError">> ELSE <<"FileNotFoundError">>
    /\ room # None => (room[1] >= 1 /\ room[1] = Cardinality(UsablePlaces))

\* two walls whose only triangle has two of its three rows in the array
C16_Witness ==
    /\ pc = "simulated"
    /\ source_exists
    /\ Len(walls_from_render) = 2
    /\ \A w \in 1..2 : walls_from_render[w] = <<2>>
    /\ Len(model_vertices) = 5
    /\ raised = <<"ValueError">>
    /\ room = None

\* C17: on the walls and vertices a Render returns, simulate builds exactly
\* one wall per mesh triangle: every triangle index is visited once, none is
\* skipped, and the wall built for it has that triangle's three vertices
\* multiplied by the scale factor.
C17_OneWallPerTriangle ==
    (pc = "simulated" /\ source_exists) =>
        LET indices == TriangleIndices(walls_from_render, 1)
            scale == IF scale_factor = None THEN DefaultScaleFactor ELSE scale_factor
        IN  /\ Len(indices) = NTris
            /\ \A t \in TriIdx : Cardinality({k \in 1..Len(indices) : indices[k] = t}) = 1
            /\ Len(pra_walls) = NTris
            /\ \A k \in 1..NTris : \A i \in 1..3 :
                  pra_walls[k][i] = [num |-> triangles[indices[k]][i] * scale.num,
                                     den |-> scale.den]
            /\ room = <<NTris>>

\* three triangles in two surfaces, scaled by 2
C17_Witness ==
    /\ pc = "simulated"
    /\ source_exists
    /\ NTris = 3
    /\ Len(walls_from_render) = 2
    /\ Len(pra_walls) = 3
    /\ scale_factor = [num |-> 2, den |-> 1]
    /\ raised = None

(***************************************************************************)
(* Properties of loading (specification SpecApp).                          *)
(***************************************************************************)
\* the last event was a load_stl_file call
LoadEvent(e) == e # None /\ e.type = "load_stl_file"

\* C19: when a load_stl_file call has returned True the application's renderer
\* holds a complete segmentation and registry; when it has returned False,
\* whichever step failed, renderer is None, so that nothing partly built
\* is reachable from the application.
C19_LoadIsAtomic ==
    /\ (LoadEvent(event) /\ load_result = <<TRUE>>) =>
          /\ renderer # None
          /\ NTris >= 1
          /\ feature_edges = ComputeFeatureEdges(triangles, normals, angle_threshold)
          /\ surfaces = GroupTrianglesIntoSurfaces(triangles, feature_edges)
          /\ DOMAIN surface_colors = SurfIdx
          /\ DOMAIN surface_materials = SurfIdx
          /\ DOMAIN triangle_to_surface = TriIdx
          /\ \A t \in TriIdx : t \in surfaces[triangle_to_surface[t]]
    /\ load_result = <<FALSE>> => renderer = None

\* a load that failed when the segmentation and the registry of the new
\* Render were built and its triangle_to_surface was not
C19_Witness ==
    /\ load_result = <<FALSE>>
    /\ renderer = None
    /\ Len(surfaces) = 2
    /\ Len(surface_colors) = 2
    /\ triangle_to_surface = <<>>
    /\ LoadEvent(event)
    /\ event.env_fail = 9

\* C20: a load_stl_file call raises no exception and leaves running as it
\* was; and after a load that failed, a load of a valid file, the
\* environment not failing, returns True and installs a renderer.
C20_FailedLoadIsRecoverable ==
    [][LoadEvent(event') =>
          /\ raised' = None
          /\ running' = running
          /\ load_result' # None
          /\ (load_result = <<FALSE>> /\ filepath'.kind = "valid" /\ event'.env_fail = 0) =>
                (load_result' = <<TRUE>> /\ renderer' # None)]_vars

\* a load of a file that cannot be read has returned False, and the
\* application is running
C20_Witness ==
    /\ LoadEvent(event)
    /\ filepath.kind = "missing"
    /\ load_result = <<FALSE>>
    /\ raised = None
    /\ running = TRUE

(***************************************************************************)
(* Properties of on_render (specification SpecApp).                        *)
(***************************************************************************)
\* the last event was an on_render that reached its call of simulate
RenderCalled(e) == e # None /\ e.type = "on_render" /\ e.called

\* C21: on_render reaches its call of Acoustic.simulate only with a
\* renderer; New Project and a failed load leave no renderer; and a
\* renderer appears only by a load that returns True.
C21_RenderNeedsModel ==
    [][/\ RenderCalled(event') => (renderer # None /\ renderer' # None)
       /\ (event' # None /\ event'.type = "on_new_project") => renderer' = None
       /\ (LoadEvent(event') /\ load_result' = <<FALSE>>) => renderer' = None
       /\ (renderer = None /\ renderer' # None) =>
             (LoadEvent(event') /\ load_result' = <<TRUE>>)]_vars

\* on_render has reached its call of simulate, on the model loaded last
C21_Witness ==
    /\ RenderCalled(event)
    /\ renderer # None
    /\ load_result = <<TRUE>>

\* C22: with a model loaded, on_render's call of simulate binds to its
\* parameters and passes the renderer's walls, vertices and
\* model_scale_factor, and when the sound source exists and the engine
\* raises nothing on_render ends in its SIMULATION COMPLETE branch with
\* the path of the output file.
C22_RenderSimulates ==
    RenderCalled(event) =>
        /\ walls_from_render = GetWallsForAcoustic
        /\ model_vertices = GetModelVertices
        /\ scale_factor = model_scale_factor
        /\ (event.exists /\ event.outcome = None) =>
              (event.branch = "SIMULATION COMPLETE" /\ event.output_file # None)

\* the triangle a pick selects when triangles i and j are tested in each
\* other's place
PickExchanged(r, i, j) ==
    LET hit == PickTriangle(SwapSeq(r, i, j))
    IN  IF hit = <<i>> THEN <<j>> ELSE IF hit = <<j>> THEN <<i>> ELSE hit
\* the valid hits than which none is nearer
NearestHits(r) == {i \in ValidHits(r) : \A j \in ValidHits(r) : r[i].t <= r[j].t}

\* C23: in whichever order the triangles are tested, the same triangle
\* and so the same surface is selected, also when two triangles are hit at
\* the same distance.
C23_PickOrderIndependent ==
    pc = "picked" =>
        \A i \in TriIdx : \A j \in (i + 1)..NTris :
            /\ PickExchanged(ray, i, j) = hit_tri
            /\ hit_tri # None =>
                  triangle_to_surface[PickExchanged(ray, i, j)[1]] = triangle_to_surface[hit_tri[1]]

\* C23 (amended): in whichever order the triangles are tested a hit at the
\* same distance t is selected, and the same triangle when only one
\* triangle is hit at that distance; of several triangles hit at the
\* nearest distance the one tested first is selected.
C23_PickOrderIndependentUpToTies ==
    pc = "picked" =>
        /\ hit_tri # None => \A k \in NearestHits(ray) : hit_tri[1] <= k
        /\ \A i \in TriIdx : \A j \in (i + 1)..NTris :
              LET other == PickExchanged(ray, i, j)
              IN  /\ (other = None) <=> (hit_tri = None)
                  /\ other # None => ray[other[1]].t = ray[hit_tri[1]].t
                  /\ Cardinality(NearestHits(ray)) = 1 => other = hit_tri

\* the second and third triangle are hit at the same distance, the first
\* farther away, and the second and third lie in different surfaces
C23_Witness ==
    /\ pc = "picked"
    /\ NTris = 3
    /\ ValidHits(ray) = {1, 2, 3}
    /\ NearestHits(ray) = {2, 3}
    /\ hit_tri = <<2>>
    /\ triangle_to_surface[2] # triangle_to_surface[3]

(***************************************************************************)
(* Properties of the routed mouse events (specification SpecRouted).       *)
(***************************************************************************)
\* the step is a left release that handle_events gave to the renderer
ReleaseRouted ==
    /\ left_button.held
    /\ ~left_button'.held
    /\ Routed(left_button'.release_pos)

\* C24: a left release given to the renderer applies the texture only when
\* the press of that hold was given to the renderer too and lies less than
\* 5 pixels from the release; and it leaves mouse_down_pos None.
C24_TextureOnlyOnClick ==
    [][ReleaseRouted =>
          /\ hit_tri' # None =>
                /\ left_button.delivered
                /\ IsClick(left_button.press_pos, left_button'.release_pos)
          /\ mouse_down_pos' = None]_vars

\* C25: mouse_down is True only while the left button is held, and a mouse
\* motion with no button held changes neither camera_heading nor
\* camera_pitch.
C25_MouseDownOnlyWhileHeld ==
    [][/\ ~left_button'.held => ~mouse_down'
       /\ (~left_button.held /\ left_button' = left_button) =>
             (camera_heading' = camera_heading /\ camera_pitch' = camera_pitch)]_vars

(***************************************************************************)
(* The frame of a pick (specification SpecEvents).                         *)
(***************************************************************************)
\* the colour and the material a triangle is drawn with
SeenColor(colors, t) == colors[triangle_to_surface[t]]
SeenMaterial(materials, t) == materials[triangle_to_surface[t]]

\* C26: a right click or a left click whose pick hits triangle t leaves
\* the colour and the material of every surface other than
\* triangle_to_surface[t] unchanged, and every triangle of that surface is
\* drawn with the colour and the material of the hit triangle.
C26_PickChangesHitSurfaceOnly ==
    [][((event' = RightPressEvent \/ event' = LeftReleaseEvent) /\ hit_tri' # None) =>
          LET surf_idx == triangle_to_surface[hit_tri'[1]]
          IN  /\ \A s \in SurfIdx \ {surf_idx} :
                    /\ surface_colors'[s] = surface_colors[s]
                    /\ surface_materials'[s] = surface_materials[s]
              /\ DOMAIN surface_colors' = SurfIdx
              /\ DOMAIN surface_materials' = SurfIdx
              /\ \A u \in surfaces[surf_idx] :
                    /\ SeenColor(surface_colors', u) = SeenColor(surface_colors', hit_tri'[1])
                    /\ SeenMaterial(surface_materials', u) =
                          SeenMaterial(surface_materials', hit_tri'[1])]_vars

\* a right click has recoloured the second of two surfaces, and the first
\* keeps the default colour
C26_Witness ==
    /\ event = RightPressEvent
    /\ hit_tri = <<2>>
    /\ Len(surfaces) = 2
    /\ surface_colors[2] # default_surface_color
    /\ surface_colors[1] = default_surface_color
    /\ surface_materials[2] = NoMaterial

(***************************************************************************)
(* Properties of find_walls (specification SpecFindWalls).                 *)
(***************************************************************************)
\* C27: over the walls find_walls returns, every triangle index appears in
\* exactly one wall.
C27_WallsPartition ==
    (pc = "render2" /\ render2_walls # None) =>
        \A t \in TriIdx :
            Cardinality({w \in 1..Len(render2_walls) : t \in render2_walls[w]}) = 1

(***************************************************************************)
(* The camera limits (specification SpecCamera).                           *)
(***************************************************************************)
PitchWithinLimits == -MaxPitch <= camera_pitch /\ camera_pitch <= MaxPitch
DistanceWithinLimits == min_distance <= camera_distance /\ camera_distance <= max_distance

C29_GroupingTerminates ==
    /\ [](\A t \in 1..Len(triangles) :
             /\ grouping.marked[t] = (IF t \in grouping.visited THEN 1 ELSE 0)
             /\ (grouping.loop = "returned" => grouping.marked[t] = 1))
    /\ [][grouping.loop = "while" /\ grouping'.loop # "while" => grouping.queue = <<>>]_vars
    /\ <>(grouping.loop = "returned" /\ surfaces = grouping.surfaces)

\* the function has returned for a mesh of three copies of one triangle:
\* each of its edges is shared by three triangles
C29_Witness ==
    /\ grouping.loop = "returned"
    /\ Len(triangles) = 3
    /\ triangles[1] = triangles[2]
    /\ triangles[2] = triangles[3]
    /\ feature_edges = {}
    /\ Len(surfaces) = 1

\* the step-by-step run returns what the function computed as a whole returns
GroupingAgrees ==
    grouping.loop = "returned" =>
        surfaces = GroupTrianglesIntoSurfaces(triangles, feature_edges)

\* C30: the main loop of App.run is left only by a pass that handled a QUIT
\* event or an ESCAPE key press; a pass that handles a left button press
\* sets mouse_down and last_mouse_pos, completes the click handling without
\* an exception, and the loop keeps running.
C30_LoopStopsOnlyOnQuitOrEscape ==
    [][pc = "main" =>
          /\ pc' = "exited" =>
                \/ event' = [type |-> "QUIT"]
                \/ event' = KeyEvent("ESCAPE")
          /\ (event' # None /\ event'.type = "MOUSEBUTTONDOWN") =>
                /\ mouse_down'
                /\ last_mouse_pos' # None
                /\ raised' = None
                /\ running'
                /\ pc' = "main"]_vars

====
